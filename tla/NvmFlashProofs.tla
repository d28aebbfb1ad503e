--------------------------- MODULE NvmFlashProofs ---------------------------
(***************************************************************************)
(* Proofs about NvmFlash, for every number of ids, contents, entries, data *)
(* units and epochs, in five parts:                                        *)
(*   - the partition headers: which of the two partitions is in use, and   *)
(*     that one of them always can be (HeaderInv, NewestInv);              *)
(*   - the entries and the data areas: a partition that counts is sound,   *)
(*     and the directory in RAM describes the one in use (FlashInv);       *)
(*   - the tally: the directory in RAM is what the parser would make of    *)
(*     the flash, down to its counters, and a copy takes the room of what  *)
(*     it keeps and no more (TallyInv);                                    *)
(*   - the contents: the directory names exactly the latest entries, and a *)
(*     copy exactly the entries to keep (ExactInv);                        *)
(*   - the refinement of NvmStore, from the three together (StoreInv).     *)
(***************************************************************************)
EXTENDS NvmFlash, FiniteSetTheorems, TLAPS

\* The part of the type invariant the proofs rest on.
HeaderTypeOK == hdr \in [Part -> HdrWords] /\ ControlTypeOK

\* The two partitions.
LEMMA PartFacts ==
  /\ 0 \in Part /\ 1 \in Part
  /\ \A p \in Part : Other(p) \in Part /\ Other(p) # p /\ Other(Other(p)) = p
  /\ \A p, q \in Part : q # p => q = Other(p)
BY DEF Part, Other

\* Words of a header.
LEMMA HdrTyping ==
  /\ BlankHdr \in HdrWords
  /\ \A h \in HdrWords :
       /\ h.epoch \in Word /\ h.start \in BOOLEAN /\ h.count \in BOOLEAN
BY DEF HdrWords, BlankHdr, Hdr, Word

\* Which header a driver call writes, and what it writes there.
LEMMA WriteHdr ==
  ASSUME HeaderTypeOK, Write
  PROVE  /\ pc = "init_erase" => hdr' = [hdr EXCEPT ![active] = BlankHdr]
         /\ pc = "init_epoch" => hdr' = [hdr EXCEPT ![active] = Hdr(0, hdr[active].start, hdr[active].count)]
         /\ pc = "init_start" => hdr' = [hdr EXCEPT ![active] = Hdr(hdr[active].epoch, TRUE, hdr[active].count)]
         /\ pc = "init_count" => hdr' = [hdr EXCEPT ![active] = Hdr(hdr[active].epoch, hdr[active].start, TRUE)]
         /\ pc \in {"dst_erase", "src_erase"} => hdr' = [hdr EXCEPT ![Other(active)] = BlankHdr]
         /\ pc = "dst_epoch" =>
              hdr' = [hdr EXCEPT ![Other(active)] = Hdr(epoch + 1, hdr[Other(active)].start, hdr[Other(active)].count)]
         /\ pc = "dst_start" =>
              hdr' = [hdr EXCEPT ![Other(active)] = Hdr(hdr[Other(active)].epoch, TRUE, hdr[Other(active)].count)]
         /\ pc = "dst_count" =>
              hdr' = [hdr EXCEPT ![Other(active)] = Hdr(hdr[Other(active)].epoch, hdr[Other(active)].start, TRUE)]
         /\ pc \in ObjPc => hdr' = hdr
BY PartFacts DEF HeaderTypeOK, ControlTypeOK, Write, Erase, Areas, ProgramHdr, ProgramHdrEpoch,
                 ProgramHdrStart, ProgramHdrCount, ProgramObj,
                 ProgramData, ObjPc

\* A driver call that stops half way can at most have cleared a header.
LEMMA PartialHdr ==
  ASSUME HeaderTypeOK, PartialWrite
  PROVE  \/ hdr' = hdr
         \/ pc = "init_erase" /\ hdr' = [hdr EXCEPT ![active] = BlankHdr]
         \/ pc \in {"dst_erase", "src_erase"} /\ hdr' = [hdr EXCEPT ![Other(active)] = BlankHdr]
BY DEF PartialWrite, Erase, ProgramObj, ProgramData, flash

(***************************************************************************)
(* The inductive invariant: how far each header is written follows from    *)
(* where the code is.                                                      *)
(***************************************************************************)
FormatProgress ==
  pc \in InitPc =>
    /\ active = 0 /\ epoch = 0
    /\ HdrStatus(1) # "USED"
    /\ pc = "init_erase" => HdrStatus(0) # "USED"
    /\ pc = "init_epoch" => hdr[0] = Hdr(Blank, FALSE, FALSE)
    /\ pc = "init_start" => hdr[0] = Hdr(0, FALSE, FALSE)
    /\ pc = "init_count" => hdr[0] = Hdr(0, TRUE, FALSE)

CopyProgress ==
  /\ pc = "dst_epoch" => hdr[Other(active)] = Hdr(Blank, FALSE, FALSE)
  /\ pc = "dst_start" => hdr[Other(active)] = Hdr(epoch + 1, FALSE, FALSE)
  /\ pc \in ObjPc /\ op.kind = "destroy" => hdr[Other(active)] = Hdr(epoch + 1, TRUE, FALSE)
  /\ pc = "dst_count" => hdr[Other(active)] = Hdr(epoch + 1, TRUE, FALSE)
  /\ pc = "dst_reread" => hdr[Other(active)] = Hdr(epoch + 1, TRUE, TRUE)

OpProgress ==
  /\ pc \in {"off", "idle"} \union InitPc => op = NoOp
  /\ pc \in ObjPc => op \in Ops
  /\ pc \in DstPc \union {"src_erase"} => op \in DestroyOps

ActiveUsed == Running => HdrStatus(active) = "USED" /\ hdr[active].epoch = epoch

HeaderInv ==
  /\ HeaderTypeOK
  /\ pc = "off" => epoch = 0
  /\ FormatProgress
  /\ CopyProgress
  /\ OpProgress
  /\ ActiveUsed

\* The theorems below are about flash whose headers can be read at start-up.
HeadersReadable == "boot" \notin Faults

\* A header has the words it was built from ...
LEMMA HdrParts ==
  ASSUME NEW e, NEW s, NEW c
  PROVE  Hdr(e, s, c).epoch = e /\ Hdr(e, s, c).start = s /\ Hdr(e, s, c).count = c
BY DEF Hdr

\* ... and is one when they are words ...
LEMMA HdrTyped ==
  /\ \A e \in Word : \A s, c \in BOOLEAN : Hdr(e, s, c) \in HdrWords
  /\ 0 \in Word /\ Blank \in Word /\ \A e \in Nat : e + 1 \in Word
BY DEF Hdr, HdrWords, Word

\* ... and writing one leaves two headers.
LEMMA HdrAt ==
  ASSUME NEW p \in Part, NEW h \in HdrWords, hdr \in [Part -> HdrWords],
         hdr' = [hdr EXCEPT ![p] = h]
  PROVE  hdr'[p] = h /\ hdr' \in [Part -> HdrWords]
OBVIOUS

\* Blank flash, and no call in progress.
LEMMA HeaderInit == Init => HeaderInv
<1> SUFFICES ASSUME Init PROVE HeaderInv
  OBVIOUS
<1>1. hdr \in [Part -> HdrWords]
  BY HdrTyping DEF Init
<1>2. ControlTypeOK
  BY PartFacts DEF Init, ControlTypeOK, Pc, Returns
<1>3. /\ pc = "off" /\ epoch = 0 /\ op = NoOp
      /\ pc \notin InitPc \union DstPc \union ObjPc \union {"src_erase"}
      /\ ~Running
  BY DEF Init, InitPc, DstPc, ObjPc, Running
<1>4. CopyProgress
  BY <1>3 DEF CopyProgress, DstPc
<1>5. FormatProgress /\ OpProgress /\ ActiveUsed
  BY <1>3 DEF FormatProgress, OpProgress, ActiveUsed
<1> QED BY <1>1, <1>2, <1>3, <1>4, <1>5 DEF HeaderInv, HeaderTypeOK

\* A header is complete when its three words are there.
LEMMA UsedMeans ==
  ASSUME NEW p \in Part
  PROVE  HdrStatus(p) = "USED" <=> hdr[p].epoch # Blank /\ hdr[p].start /\ hdr[p].count
BY DEF HdrStatus, StateStatus

\* Steps that leave the headers and the place in them alone.
LEMMA HeaderKept ==
  ASSUME HeaderInv, hdr' = hdr, active' = active, epoch' = epoch, ControlTypeOK',
         \/ pc' = pc /\ op' = op
         \/ /\ pc \in ObjPc /\ pc' \in ObjPc /\ op' = op
         \/ /\ Running /\ pc' = "idle" /\ op' = NoOp
         \/ /\ pc \in {"idle"} /\ pc' = "obj_epoch" /\ op' \in AddOps
         \/ /\ pc \in {"idle"} /\ pc' = "dst_erase" /\ op' \in DestroyOps
  PROVE  HeaderInv'
<1> USE DEF HeaderInv
<1>1. HeaderTypeOK'
  BY DEF HeaderTypeOK
<1>2. \A p : HdrStatus(p)' = HdrStatus(p)
  BY DEF HdrStatus
<1>3. CASE pc' = pc /\ op' = op
  <2>1. FormatProgress'
    BY <1>2, <1>3 DEF FormatProgress
  <2>2. CopyProgress'
    BY <1>3 DEF CopyProgress
  <2>3. OpProgress'
    BY <1>3 DEF OpProgress
  <2>4. ActiveUsed'
    BY <1>2, <1>3 DEF ActiveUsed, Running
  <2> QED BY <1>1, <1>3, <2>1, <2>2, <2>3, <2>4
<1>4. CASE pc \in ObjPc /\ pc' \in ObjPc /\ op' = op
  BY <1>1, <1>2, <1>4
     DEF FormatProgress, CopyProgress, OpProgress, ActiveUsed, Running, InitPc, DstPc, ObjPc
<1>5. CASE Running /\ pc' = "idle" /\ op' = NoOp
  BY <1>1, <1>2, <1>5
     DEF FormatProgress, CopyProgress, OpProgress, ActiveUsed, Running, InitPc, DstPc, ObjPc
<1>6. CASE pc = "idle" /\ pc' = "obj_epoch" /\ op' \in AddOps
  <2>1. op'.kind = "add" /\ op' \in Ops
    BY <1>6 DEF AddOps, Ops
  <2> QED
    BY <1>1, <1>2, <1>6, <2>1
       DEF FormatProgress, CopyProgress, OpProgress, ActiveUsed, Running, InitPc, DstPc, ObjPc
<1>7. CASE pc = "idle" /\ pc' = "dst_erase" /\ op' \in DestroyOps
  BY <1>1, <1>2, <1>7
     DEF FormatProgress, CopyProgress, OpProgress, ActiveUsed, Running, InitPc, DstPc, ObjPc
<1> QED BY <1>3, <1>4, <1>5, <1>6, <1>7

\* The two kinds of operation.
LEMMA KindFacts ==
  /\ \A o \in AddOps : o.kind = "add" /\ o \in Ops
  /\ \A o \in DestroyOps : o.kind = "destroy" /\ o \in Ops
  /\ \A o \in Ops : o.kind # "destroy" => o \in AddOps
  /\ \A o \in Ops : o.kind # "add" => o \in DestroyOps
BY DEF AddOps, DestroyOps, Ops

\* Start-up: a complete partition is chosen, or the format begins.
LEMMA StepInitFlash ==
  ASSUME HeadersReadable, HeaderInv, InitFlash
  PROVE  HeaderInv'
<1> USE PartFacts, HdrTyping DEF HeaderInv
<1>1. PICK unreadable \in {{}} :
         /\ active' = Choose(Used(unreadable))
         /\ IF Used(unreadable) = {}
            THEN pc' = "init_erase" /\ UNCHANGED <<epoch, dir>>
            ELSE pc' = "idle" /\ epoch' = hdr[Choose(Used(unreadable))].epoch
  BY DEF InitFlash, HeadersReadable
<1>2. /\ pc = "off" /\ hdr' = hdr /\ op' = op /\ dirBad' = dirBad /\ ret' = ret
      /\ unreadable = {}
  BY <1>1 DEF InitFlash, flash
<1>3. \A p : HdrStatus(p)' = HdrStatus(p)
  BY <1>2 DEF HdrStatus
<1>4. op = NoOp /\ epoch = 0
  BY <1>2 DEF OpProgress
<1>5. CASE Used({}) = {}
  <2>1. active' = 0 /\ pc' = "init_erase" /\ epoch' = 0
    BY <1>1, <1>2, <1>4, <1>5 DEF Choose, Part
  <2>2. \A p \in Part : HdrStatus(p) # "USED"
    BY <1>5 DEF Used
  <2>3. HeaderTypeOK'
    BY <1>2, <2>1 DEF HeaderTypeOK, ControlTypeOK, Pc, InitPc
  <2> QED
    BY <1>2, <1>3, <1>4, <2>1, <2>2, <2>3
       DEF FormatProgress, CopyProgress, OpProgress, ActiveUsed, Running, InitPc, DstPc, ObjPc
<1>6. CASE Used({}) # {}
  <2>1. Choose(Used({})) \in Used({})
    BY <1>6 DEF Choose, Used, Part
  <2>2. /\ active' \in Part /\ HdrStatus(active') = "USED"
        /\ pc' = "idle" /\ epoch' = hdr[active'].epoch
    BY <1>1, <1>2, <1>6, <2>1 DEF Used
  <2>3. epoch' \in Nat
    BY <2>2, UsedMeans DEF HeaderTypeOK, Word
  <2>4. HeaderTypeOK'
    BY <1>2, <2>2, <2>3 DEF HeaderTypeOK, ControlTypeOK, Pc
  <2> QED
    BY <1>2, <1>3, <1>4, <2>2, <2>4
       DEF FormatProgress, CopyProgress, OpProgress, ActiveUsed, Running, InitPc, DstPc, ObjPc,
           HdrStatus
<1> QED BY <1>5, <1>6

\* The format, word by word.
LEMMA StepInit ==
  ASSUME HeaderInv, InitStep
  PROVE  HeaderInv'
<1> USE PartFacts, HdrTyping DEF HeaderInv
<1>1. /\ pc \in InitPc /\ Ready /\ Write
      /\ active' = active /\ epoch' = epoch /\ op' = op /\ dirBad' = dirBad /\ ret' = ret
      /\ active = 0 /\ epoch = 0 /\ HdrStatus(1) # "USED" /\ op = NoOp
  BY DEF InitStep, FormatProgress, OpProgress
<1>2. HdrStatus(1)' # "USED" /\ hdr'[1] = hdr[1]
  <2>1. hdr'[1] = hdr[1]
    <3>1. \E h : hdr' = [hdr EXCEPT ![0] = h]
      BY <1>1, WriteHdr DEF InitPc
    <3> QED
      BY <3>1 DEF HeaderTypeOK
  <2> QED BY <1>1, <2>1 DEF HdrStatus
<1>3. hdr[0] \in HdrWords /\ hdr[0].epoch \in Word
  BY DEF HeaderTypeOK
<1>4. CASE pc = "init_erase"
  <2>1. pc' = "init_epoch" /\ hdr' = [hdr EXCEPT ![0] = BlankHdr]
    BY <1>1, <1>4, WriteHdr DEF InitStep
  <2>2. hdr'[0] = Hdr(Blank, FALSE, FALSE) /\ hdr' \in [Part -> HdrWords]
    BY <2>1, HdrTyped, HdrAt DEF BlankHdr, Hdr, HeaderTypeOK
  <2> QED
    BY <1>1, <1>2, <2>1, <2>2
       DEF HeaderTypeOK, ControlTypeOK, FormatProgress, CopyProgress, OpProgress, ActiveUsed,
           Running, InitPc, DstPc, ObjPc, Pc
<1>5. CASE pc = "init_epoch"
  <2>1. pc' = "init_start" /\ hdr' = [hdr EXCEPT ![0] = Hdr(0, hdr[0].start, hdr[0].count)]
    BY <1>1, <1>5, WriteHdr DEF InitStep
  <2>2. hdr'[0] = Hdr(0, FALSE, FALSE) /\ hdr' \in [Part -> HdrWords]
    <3>1. hdr[0].epoch = Blank /\ hdr[0].start = FALSE /\ hdr[0].count = FALSE
      BY <1>5 DEF FormatProgress, InitPc, Hdr
    <3>2. hdr' = [hdr EXCEPT ![0] = Hdr(0, FALSE, FALSE)]
      BY <2>1, <3>1
    <3> QED
      BY <3>2, HdrTyped, HdrAt DEF HeaderTypeOK
  <2> QED
    BY <1>1, <1>2, <2>1, <2>2
       DEF HeaderTypeOK, ControlTypeOK, FormatProgress, CopyProgress, OpProgress, ActiveUsed,
           Running, InitPc, DstPc, ObjPc, Pc
<1>6. CASE pc = "init_start"
  <2>1. pc' = "init_count" /\ hdr' = [hdr EXCEPT ![0] = Hdr(hdr[0].epoch, TRUE, hdr[0].count)]
    BY <1>1, <1>6, WriteHdr DEF InitStep
  <2>2. hdr'[0] = Hdr(0, TRUE, FALSE) /\ hdr' \in [Part -> HdrWords]
    <3>1. hdr[0].epoch = 0 /\ hdr[0].start = FALSE /\ hdr[0].count = FALSE
      BY <1>6 DEF FormatProgress, InitPc, Hdr
    <3>2. hdr' = [hdr EXCEPT ![0] = Hdr(0, TRUE, FALSE)]
      BY <2>1, <3>1
    <3> QED
      BY <3>2, HdrTyped, HdrAt DEF HeaderTypeOK
  <2> QED
    BY <1>1, <1>2, <2>1, <2>2
       DEF HeaderTypeOK, ControlTypeOK, FormatProgress, CopyProgress, OpProgress, ActiveUsed,
           Running, InitPc, DstPc, ObjPc, Pc
<1>7. CASE pc = "init_count"
  <2>1. pc' = "idle" /\ hdr' = [hdr EXCEPT ![0] = Hdr(hdr[0].epoch, hdr[0].start, TRUE)]
    BY <1>1, <1>7, WriteHdr DEF InitStep
  <2>2. hdr'[0] = Hdr(0, TRUE, TRUE) /\ hdr' \in [Part -> HdrWords]
    <3>1. hdr[0].epoch = 0 /\ hdr[0].start = TRUE /\ hdr[0].count = FALSE
      BY <1>7 DEF FormatProgress, InitPc, Hdr
    <3>2. hdr' = [hdr EXCEPT ![0] = Hdr(0, TRUE, TRUE)]
      BY <2>1, <3>1
    <3> QED
      BY <3>2, HdrTyped, HdrAt DEF HeaderTypeOK
  <2>3. HdrStatus(0)' = "USED"
    BY <2>2, WordAssumption DEF HdrStatus, StateStatus, Hdr
  <2> QED
    BY <1>1, <2>1, <2>2, <2>3
       DEF Hdr, HeaderTypeOK, ControlTypeOK, FormatProgress, CopyProgress, OpProgress, ActiveUsed,
           Running, InitPc, DstPc, ObjPc, Pc
<1> QED BY <1>1, <1>4, <1>5, <1>6, <1>7 DEF InitPc

\* The header of the active partition is out of reach of a destroy.
LEMMA OtherHdr ==
  ASSUME HeaderInv, NEW h, hdr' = [hdr EXCEPT ![Other(active)] = h], active' = active
  PROVE  hdr'[active] = hdr[active] /\ HdrStatus(active)' = HdrStatus(active)
<1>1. hdr'[active] = hdr[active]
  BY PartFacts DEF HeaderInv, HeaderTypeOK, ControlTypeOK
<1> QED BY <1>1 DEF HdrStatus

\* Erase, epoch and start of the new partition.
LEMMA StepDst ==
  ASSUME HeaderInv, DstStep
  PROVE  HeaderInv'
<1> USE PartFacts, HdrTyping DEF HeaderInv
<1> DEFINE dst == Other(active)
<1>1. /\ pc \in {"dst_erase", "dst_epoch", "dst_start"} /\ Ready /\ Write
      /\ active' = active /\ epoch' = epoch /\ op' = op /\ dirBad' = dirBad /\ ret' = ret
      /\ Running /\ op \in DestroyOps /\ op.kind = "destroy"
  BY KindFacts DEF DstStep, OpProgress, DstPc, Running, InitPc, ram
<1>2. /\ hdr[dst].epoch \in Word /\ hdr[dst].start \in BOOLEAN /\ hdr[dst].count \in BOOLEAN
      /\ epoch + 1 \in Nat
  BY DEF HeaderTypeOK, ControlTypeOK
<1>3. CASE pc = "dst_erase"
  <2>1. pc' = "dst_epoch" /\ hdr' = [hdr EXCEPT ![dst] = Hdr(Blank, FALSE, FALSE)]
    BY <1>1, <1>3, WriteHdr DEF DstStep, BlankHdr
  <2>2. hdr'[dst] = Hdr(Blank, FALSE, FALSE) /\ hdr' \in [Part -> HdrWords]
    BY <2>1, HdrTyped, HdrAt DEF HeaderTypeOK, ControlTypeOK
  <2>3. hdr'[active] = hdr[active] /\ HdrStatus(active)' = HdrStatus(active)
    BY <1>1, <2>1, OtherHdr
  <2> QED
    BY <1>1, <2>1, <2>2, <2>3
       DEF HeaderTypeOK, ControlTypeOK, FormatProgress, CopyProgress, OpProgress, ActiveUsed,
           Running, InitPc, DstPc, ObjPc, Pc
<1>4. CASE pc = "dst_epoch"
  <2>1. pc' = "dst_start" /\ hdr' = [hdr EXCEPT ![dst] = Hdr(epoch + 1, hdr[dst].start, hdr[dst].count)]
    BY <1>1, <1>4, WriteHdr DEF DstStep
  <2>2. hdr' = [hdr EXCEPT ![dst] = Hdr(epoch + 1, FALSE, FALSE)]
    <3>1. hdr[dst].start = FALSE /\ hdr[dst].count = FALSE
      BY <1>4 DEF CopyProgress, Hdr
    <3> QED BY <2>1, <3>1
  <2>3. hdr'[dst] = Hdr(epoch + 1, FALSE, FALSE) /\ hdr' \in [Part -> HdrWords]
    BY <1>2, <2>2, HdrTyped, HdrAt DEF HeaderTypeOK, ControlTypeOK
  <2>4. hdr'[active] = hdr[active] /\ HdrStatus(active)' = HdrStatus(active)
    BY <1>1, <2>2, OtherHdr
  <2> QED
    BY <1>1, <2>1, <2>3, <2>4
       DEF HeaderTypeOK, ControlTypeOK, FormatProgress, CopyProgress, OpProgress, ActiveUsed,
           Running, InitPc, DstPc, ObjPc, Pc
<1>5. CASE pc = "dst_start"
  <2>1. pc' \in {"obj_epoch", "dst_count"}
        /\ hdr' = [hdr EXCEPT ![dst] = Hdr(hdr[dst].epoch, TRUE, hdr[dst].count)]
    BY <1>1, <1>5, WriteHdr DEF DstStep, StartCopy
  <2>2. hdr' = [hdr EXCEPT ![dst] = Hdr(epoch + 1, TRUE, FALSE)]
    <3>1. hdr[dst].epoch = epoch + 1 /\ hdr[dst].count = FALSE
      BY <1>5 DEF CopyProgress, Hdr
    <3> QED BY <2>1, <3>1
  <2>3. hdr'[dst] = Hdr(epoch + 1, TRUE, FALSE) /\ hdr' \in [Part -> HdrWords]
    BY <1>2, <2>2, HdrTyped, HdrAt DEF HeaderTypeOK, ControlTypeOK
  <2>4. hdr'[active] = hdr[active] /\ HdrStatus(active)' = HdrStatus(active)
    BY <1>1, <2>2, OtherHdr
  <2>5. op \in Ops
    BY <1>1, KindFacts
  <2> QED
    BY <1>1, <2>1, <2>3, <2>4, <2>5
       DEF HeaderTypeOK, ControlTypeOK, FormatProgress, CopyProgress, OpProgress, ActiveUsed,
           Running, InitPc, DstPc, ObjPc, Pc
<1> QED BY <1>1, <1>3, <1>4, <1>5

\* The commit point.
LEMMA StepDstCount ==
  ASSUME HeaderInv, DstCount
  PROVE  HeaderInv'
<1> USE PartFacts, HdrTyping DEF HeaderInv
<1> DEFINE dst == Other(active)
<1>1. /\ pc = "dst_count" /\ pc' = "dst_reread" /\ Write
      /\ active' = active /\ epoch' = epoch /\ op' = op /\ dirBad' = dirBad /\ ret' = ret
      /\ Running /\ op \in DestroyOps
  BY DEF DstCount, OpProgress, DstPc, Running, InitPc, ram
<1>2. hdr' = [hdr EXCEPT ![dst] = Hdr(epoch + 1, TRUE, TRUE)]
  <2>1. hdr' = [hdr EXCEPT ![dst] = Hdr(hdr[dst].epoch, hdr[dst].start, TRUE)]
    BY <1>1, WriteHdr
  <2>2. hdr[dst].epoch = epoch + 1 /\ hdr[dst].start = TRUE
    BY <1>1 DEF CopyProgress, Hdr
  <2> QED BY <2>1, <2>2
<1>3. hdr'[dst] = Hdr(epoch + 1, TRUE, TRUE) /\ hdr' \in [Part -> HdrWords]
  BY <1>2, HdrTyped, HdrAt DEF HeaderTypeOK, ControlTypeOK
<1>4. hdr'[active] = hdr[active] /\ HdrStatus(active)' = HdrStatus(active)
  BY <1>1, <1>2, OtherHdr
<1> QED
  BY <1>1, <1>3, <1>4
     DEF HeaderTypeOK, ControlTypeOK, FormatProgress, CopyProgress, OpProgress, ActiveUsed,
         Running, InitPc, DstPc, ObjPc, Pc

\* The calls that write nothing: a refusal, or nothing to destroy.
LEMMA StepReturn ==
  ASSUME HeaderInv,
         (\E v \in Val : AddNoSpace(v)) \/ (\E ids \in SUBSET Id : DestroyNothing(ids)) \/ RefuseBad
  PROVE  HeaderInv'
<1>1. /\ hdr' = hdr /\ active' = active /\ epoch' = epoch /\ dirBad' = dirBad
      /\ pc' = pc /\ op' = op /\ ret' \in Returns
  BY DEF AddNoSpace, DestroyNothing, RefuseBad, Return, Returns, flash, ram
<1>2. ControlTypeOK'
  BY <1>1 DEF HeaderInv, HeaderTypeOK, ControlTypeOK
<1> QED BY <1>1, <1>2, HeaderKept

\* AddObject and DestroyObjects begin with the headers as they are.
LEMMA StepCall ==
  ASSUME HeaderInv,
         \/ \E id \in Id, v \in Val : AddObject(id, v)
         \/ \E ids \in SUBSET Id : DestroyObjects(ids)
  PROVE  HeaderInv'
<1>1. /\ hdr' = hdr /\ active' = active /\ epoch' = epoch /\ dirBad' = dirBad
      /\ pc = "idle" /\ ret' = "NONE"
      /\ \/ pc' = "obj_epoch" /\ op' \in AddOps
         \/ pc' = "dst_erase" /\ op' \in DestroyOps
  BY DEF AddObject, DestroyObjects, AddOps, DestroyOps, flash, ram
<1>2. ControlTypeOK'
  BY <1>1 DEF HeaderInv, HeaderTypeOK, ControlTypeOK, Pc, ObjPc, DstPc, Ops, Returns
<1> QED BY <1>1, <1>2, HeaderKept

\* The words of an entry but its last.
LEMMA StepObj ==
  ASSUME HeaderInv, ObjStep
  PROVE  HeaderInv'
<1>1. /\ active' = active /\ epoch' = epoch /\ dirBad' = dirBad /\ op' = op /\ ret' = ret
      /\ pc \in ObjPc /\ pc' \in ObjPc /\ Write
  BY DEF ObjStep, ObjPc, ram
<1>2. hdr' = hdr
  BY <1>1, WriteHdr DEF HeaderInv
<1>3. ControlTypeOK'
  BY <1>1 DEF HeaderInv, HeaderTypeOK, ControlTypeOK, Pc
<1> QED BY <1>1, <1>2, <1>3, HeaderKept

\* The last word of an entry: the end of an add, or the next one to copy.
LEMMA StepObjCount ==
  ASSUME HeaderInv, ObjCount
  PROVE  HeaderInv'
<1>1. /\ active' = active /\ epoch' = epoch /\ dirBad' = dirBad
      /\ pc = "obj_count" /\ pc \in ObjPc /\ Write /\ Running
  BY DEF ObjCount, ObjPc, Running, InitPc
<1>2. hdr' = hdr
  BY <1>1, WriteHdr DEF HeaderInv
<1>3. CASE op.kind = "add"
  <2>1. pc' = "idle" /\ op' = NoOp /\ ret' = "OK"
    BY <1>3 DEF ObjCount, Finish
  <2>2. ControlTypeOK'
    BY <1>1, <2>1 DEF HeaderInv, HeaderTypeOK, ControlTypeOK, Pc, Returns
  <2> QED BY <1>1, <1>2, <2>1, <2>2, HeaderKept
<1>4. CASE op.kind # "add"
  <2>1. pc' \in {"obj_epoch", "dst_count"} /\ op' = op /\ ret' = ret
    BY <1>4 DEF ObjCount, StartCopy
  <2>2. ControlTypeOK'
    BY <1>1, <2>1 DEF HeaderInv, HeaderTypeOK, ControlTypeOK, Pc, ObjPc, DstPc
  <2>3. CASE pc' = "obj_epoch"
    BY <1>1, <1>2, <2>1, <2>2, <2>3, HeaderKept DEF ObjPc
  <2>4. CASE pc' = "dst_count"
    <3>1. op \in DestroyOps /\ op.kind = "destroy"
      BY <1>1, <1>4, KindFacts DEF HeaderInv, OpProgress
    <3>2. HdrStatus(active)' = HdrStatus(active)
      BY <1>1, <1>2 DEF HdrStatus
    <3> QED
      BY <1>1, <1>2, <2>1, <2>2, <2>4, <3>1, <3>2
         DEF HeaderInv, HeaderTypeOK, FormatProgress, CopyProgress, OpProgress, ActiveUsed,
             Running, InitPc, DstPc, ObjPc
  <2> QED BY <2>1, <2>3, <2>4
<1> QED BY <1>3, <1>4

\* The switch: the partition just completed becomes the active one.
LEMMA StepReread ==
  ASSUME HeaderInv, DstReread
  PROVE  HeaderInv'
<1> USE PartFacts DEF HeaderInv
<1>1. /\ pc = "dst_reread" /\ pc' = "src_erase" /\ hdr' = hdr /\ op' = op /\ ret' = ret
      /\ dirBad' = dirBad /\ active' = Other(active) /\ epoch' = epoch + 1
      /\ op \in DestroyOps /\ op.kind = "destroy"
  BY KindFacts DEF DstReread, OpProgress, DstPc, flash
<1>2. HeaderTypeOK'
  BY <1>1 DEF HeaderTypeOK, ControlTypeOK, Pc
<1>3. hdr[Other(active)] = Hdr(epoch + 1, TRUE, TRUE)
  BY <1>1 DEF CopyProgress
<1>4. epoch + 1 # Blank
  BY WordAssumption DEF HeaderTypeOK, ControlTypeOK
<1>5. HdrStatus(active)' = "USED" /\ hdr'[active'].epoch = epoch'
  BY <1>1, <1>3, <1>4 DEF HdrStatus, StateStatus, Hdr
<1> QED
  BY <1>1, <1>2, <1>5
     DEF FormatProgress, CopyProgress, OpProgress, ActiveUsed, Running, InitPc, DstPc, ObjPc

\* The new directory cannot be read: the headers are left as they are.
LEMMA StepRereadError ==
  ASSUME HeaderInv, DstRereadError
  PROVE  HeaderInv'
<1>1. /\ hdr' = hdr /\ active' = active /\ epoch' = epoch /\ dirBad' \in BOOLEAN
      /\ pc' = "idle" /\ op' = NoOp /\ ret' = "ERROR" /\ Running
  BY DEF DstRereadError, Finish, HeaderInv, HeaderTypeOK, ControlTypeOK, flash, Running, InitPc
<1>2. ControlTypeOK'
  BY <1>1 DEF HeaderInv, HeaderTypeOK, ControlTypeOK, Pc, Returns
<1> QED BY <1>1, <1>2, HeaderKept

\* Whatever a driver call does, whole or cut short, the headers stay words, and
\* outside a format the header of the active partition is left alone.
LEMMA AnyWrite ==
  ASSUME HeaderInv, Write \/ PartialWrite \/ UNCHANGED flash, active' = active
  PROVE  /\ hdr' \in [Part -> HdrWords]
         /\ pc \notin InitPc => HdrStatus(active)' = HdrStatus(active)
                              /\ hdr'[active] = hdr[active]
<1> USE PartFacts, HdrTyping DEF HeaderInv
<1>1. /\ hdr \in [Part -> HdrWords] /\ active \in Part /\ epoch \in Nat /\ Other(active) \in Part
      /\ \A p \in Part : hdr[p] \in HdrWords
  BY DEF HeaderTypeOK, ControlTypeOK
<1>2. \/ hdr' = hdr
      \/ pc \in InitPc /\ \E h \in HdrWords : hdr' = [hdr EXCEPT ![active] = h]
      \/ pc \notin InitPc /\ \E h \in HdrWords : hdr' = [hdr EXCEPT ![Other(active)] = h]
  <2>1. CASE PartialWrite
    BY <2>1, PartialHdr DEF InitPc
  <2>2. CASE UNCHANGED flash
    BY <2>2 DEF flash
  <2>3. CASE Write
    <3>1. \A p \in Part : \A e \in Word \union {hdr[p].epoch} :
             \A s \in {TRUE, hdr[p].start} : \A c \in {TRUE, hdr[p].count} : Hdr(e, s, c) \in HdrWords
      BY <1>1, HdrTyped
    <3>2. pc \in Pc /\ (pc \in WritePc \/ hdr' = hdr)
      BY <2>3 DEF HeaderTypeOK, ControlTypeOK, Write, WritePc, Pc, InitPc, DstPc, ObjPc
    <3>3. pc \in ObjPc => hdr' = hdr
      BY <2>3, WriteHdr
    <3>4. pc \in InitPc => \E h \in HdrWords : hdr' = [hdr EXCEPT ![active] = h]
      BY <1>1, <2>3, <3>1, WriteHdr, HdrTyped DEF InitPc
    <3>5. pc \in WritePc \ (InitPc \union ObjPc) =>
            \E h \in HdrWords : hdr' = [hdr EXCEPT ![Other(active)] = h]
      <4>1. pc \in {"dst_erase", "src_erase"} =>
              \E h \in HdrWords : hdr' = [hdr EXCEPT ![Other(active)] = h]
        BY <1>1, <2>3, WriteHdr
      <4>2. pc = "dst_epoch" => \E h \in HdrWords : hdr' = [hdr EXCEPT ![Other(active)] = h]
        <5>1. Hdr(epoch + 1, hdr[Other(active)].start, hdr[Other(active)].count) \in HdrWords
          BY <1>1, HdrTyped
        <5> QED BY <2>3, <5>1, WriteHdr
      <4>3. pc \in {"dst_start", "dst_count"} =>
              \E h \in HdrWords : hdr' = [hdr EXCEPT ![Other(active)] = h]
        <5>1. /\ Hdr(hdr[Other(active)].epoch, TRUE, hdr[Other(active)].count) \in HdrWords
              /\ Hdr(hdr[Other(active)].epoch, hdr[Other(active)].start, TRUE) \in HdrWords
          BY <1>1, HdrTyped
        <5> QED BY <2>3, <5>1, WriteHdr
      <4> QED BY <4>1, <4>2, <4>3 DEF WritePc, Pc, InitPc, DstPc
    <3> QED BY <3>2, <3>3, <3>4, <3>5
  <2> QED BY <2>1, <2>2, <2>3
<1>3. hdr' \in [Part -> HdrWords]
  BY <1>1, <1>2
<1>4. pc \notin InitPc => hdr'[active] = hdr[active]
  BY <1>1, <1>2
<1> QED BY <1>3, <1>4 DEF HdrStatus

\* The old partition is erased after the switch.
LEMMA StepSrcErase ==
  ASSUME HeaderInv, SrcErase
  PROVE  HeaderInv'
<1> USE DEF HeaderInv
<1>1. /\ Write /\ pc = "src_erase" /\ pc' = "idle" /\ op' = NoOp /\ ret' = "OK" /\ Running
      /\ active' = active /\ epoch' = epoch /\ dirBad' = dirBad /\ pc \notin InitPc
  BY DEF SrcErase, Finish, ram, Running, InitPc
<1>2. /\ hdr' \in [Part -> HdrWords]
      /\ HdrStatus(active)' = HdrStatus(active) /\ hdr'[active] = hdr[active]
  BY <1>1, AnyWrite
<1> QED
  BY <1>1, <1>2
     DEF HeaderTypeOK, ControlTypeOK, FormatProgress, CopyProgress, OpProgress, ActiveUsed,
         Running, InitPc, DstPc, ObjPc, Pc, Returns

\* A driver call fails.
LEMMA StepError ==
  ASSUME HeaderInv, FlashError
  PROVE  HeaderInv'
<1> USE DEF HeaderInv
<1>1. /\ active' = active /\ epoch' = epoch /\ dirBad' = dirBad /\ pc \in WritePc
      /\ Write \/ PartialWrite \/ UNCHANGED flash
  BY DEF FlashError, ram
<1>2. /\ hdr' \in [Part -> HdrWords]
      /\ pc \notin InitPc => HdrStatus(active)' = HdrStatus(active)
                           /\ hdr'[active] = hdr[active]
  BY <1>1, AnyWrite
<1>3. CASE pc \in InitPc
  <2>1. pc' = "off" /\ op' = op /\ ret' = ret /\ op = NoOp /\ epoch = 0
    BY <1>3 DEF FlashError, OpProgress, FormatProgress
  <2> QED
    BY <1>1, <1>2, <2>1
       DEF HeaderTypeOK, ControlTypeOK, FormatProgress, CopyProgress, OpProgress, ActiveUsed,
           Running, InitPc, DstPc, ObjPc, Pc
<1>4. CASE pc \notin InitPc
  <2>1. pc' = "idle" /\ op' = NoOp /\ ret' = "ERROR" /\ Running
    BY <1>1, <1>4 DEF FlashError, Finish, Running, WritePc
  <2> QED
    BY <1>1, <1>2, <1>4, <2>1
       DEF HeaderTypeOK, ControlTypeOK, FormatProgress, CopyProgress, OpProgress, ActiveUsed,
           Running, InitPc, DstPc, ObjPc, Pc, Returns
<1> QED BY <1>3, <1>4

\* Power is lost.
LEMMA StepReset ==
  ASSUME HeaderInv, Reset
  PROVE  HeaderInv'
<1> USE PartFacts, HdrTyping DEF HeaderInv
<1>1. /\ pc' = "off" /\ active' = 0 /\ epoch' = 0 /\ dirBad' = FALSE /\ op' = NoOp /\ ret' = "NONE"
      /\ PartialWrite \/ UNCHANGED flash
  BY DEF Reset
<1>2. hdr' \in [Part -> HdrWords]
  BY <1>1, PartialHdr DEF HeaderTypeOK, ControlTypeOK, flash
<1> QED
  BY <1>1, <1>2
     DEF HeaderTypeOK, ControlTypeOK, FormatProgress, CopyProgress, OpProgress, ActiveUsed,
         Running, InitPc, DstPc, ObjPc, Pc, Returns

\* A reset spares the header of the partition in use.
LEMMA ResetKeeps ==
  ASSUME HeaderInv, Reset, pc \notin InitPc, NEW p \in Part, p = active
  PROVE  HdrStatus(p)' = HdrStatus(p)
<1>1. PartialWrite \/ UNCHANGED flash
  BY DEF Reset
<1>2. hdr' = hdr \/ hdr' = [hdr EXCEPT ![Other(p)] = BlankHdr]
  BY <1>1, PartialHdr DEF HeaderInv, flash, InitPc
<1>3. hdr'[p] = hdr[p]
  BY <1>2, PartFacts DEF HeaderInv, HeaderTypeOK
<1> QED BY <1>3 DEF HdrStatus

(***************************************************************************)
(* Theorems.                                                               *)
(***************************************************************************)
\* Every step keeps the invariant.
LEMMA HeaderStep ==
  ASSUME HeadersReadable, HeaderInv, [Next]_vars
  PROVE  HeaderInv'
<1>1. CASE UNCHANGED vars
  <2>1. /\ hdr' = hdr /\ active' = active /\ epoch' = epoch /\ dirBad' = dirBad
        /\ pc' = pc /\ op' = op /\ ret' = ret
    BY <1>1 DEF vars
  <2>2. ControlTypeOK'
    BY <2>1 DEF HeaderInv, HeaderTypeOK, ControlTypeOK
  <2> QED BY <2>1, <2>2, HeaderKept
<1>2. CASE Next
  BY <1>2, StepInitFlash, StepInit, StepReturn, StepCall, StepDst, StepObj, StepObjCount,
     StepDstCount, StepReread, StepRereadError, StepSrcErase, StepError, StepReset DEF Next
<1> QED BY <1>1, <1>2

\* The two headers, the epoch the code remembers and the call in progress agree
\* at every step of wh_NvmFlash_Init, AddObject and DestroyObjects, and while
\* the store runs the active partition is complete.
THEOREM HeadersFollowCode ==
  ASSUME HeadersReadable
  PROVE  Spec => []HeaderInv
<1>1. Init => HeaderInv
  BY HeaderInit
<1>2. HeaderInv /\ [Next]_vars => HeaderInv'
  BY HeaderStep
<1> QED BY <1>1, <1>2, PTL DEF Spec

\* wh_NvmFlash_Init formats partition 0 only while neither partition is
\* complete: no reset and no error of the driver makes it throw objects away.
THEOREM FormatIsSafe ==
  ASSUME HeadersReadable
  PROVE  Spec => []FormatOnlyWhenEmpty
<1>1. HeaderInv => FormatOnlyWhenEmpty
  <2> SUFFICES ASSUME HeaderInv, pc \in InitPc PROVE Used({}) = {}
    BY DEF FormatOnlyWhenEmpty
  <2>1. HdrStatus(0) # "USED" /\ HdrStatus(1) # "USED"
    BY UsedMeans, PartFacts DEF HeaderInv, FormatProgress, InitPc, Hdr
  <2> QED BY <2>1 DEF Used, Part
<1> QED BY <1>1, HeadersFollowCode, PTL

\* Once a partition is complete there always is one: whatever step of an update
\* is interrupted, or fails, start-up finds a directory.
THEOREM NeverUnformattedAgain ==
  ASSUME HeadersReadable
  PROVE  Spec => NeverUnformatted
<1>1. HeaderInv /\ HeaderInv' /\ [Next]_vars => [Used({}) # {} => (Used({}))' # {}]_vars
  <2> SUFFICES ASSUME HeaderInv, HeaderInv', [Next]_vars, Used({}) # {}
               PROVE  (Used({}))' # {}
    OBVIOUS
  <2>1. CASE Running'
    BY <2>1 DEF HeaderInv, HeaderTypeOK, ControlTypeOK, ActiveUsed, Used
  <2>2. CASE ~Running'
    <3>1. pc \notin InitPc
      BY UsedMeans, PartFacts DEF HeaderInv, FormatProgress, InitPc, Hdr, Used, Part
    <3>2. CASE hdr' = hdr
      BY <3>2 DEF Used, HdrStatus
    <3>3. CASE hdr' # hdr
      <4>1. Reset
        BY <2>2, <3>1, <3>3
           DEF Next, Running, InitFlash, InitStep, AddObject, AddNoSpace, DestroyObjects,
               DestroyNothing, RefuseBad, DstStep, ObjStep, ObjCount, DstCount, DstReread,
               DstRereadError, SrcErase, FlashError, Return, Finish, StartCopy, InitPc, ObjPc,
               flash, vars
      <4>2. Running
        BY <3>1, <3>3, <4>1 DEF Reset, Running
      <4>3. PICK p \in Part : p = active
        BY DEF HeaderInv, HeaderTypeOK, ControlTypeOK
      <4>4. HdrStatus(p) = "USED" /\ HdrStatus(p)' = HdrStatus(p)
        BY <3>1, <4>1, <4>2, <4>3, ResetKeeps DEF HeaderInv, ActiveUsed
      <4> QED BY <4>4 DEF Used
    <3> QED BY <3>2, <3>3
  <2> QED BY <2>1, <2>2
<1> QED BY <1>1, HeadersFollowCode, PTL DEF Spec, NeverUnformatted

(***************************************************************************)
(* Which of two complete partitions is the current one.                    *)
(***************************************************************************)
\* Driver errors that leave a write complete, and directories that cannot be
\* read back, are what AddIsDurable fails on; the theorem is about the rest.
WritesReported == Faults \intersect {"verify", "reread", "boot"} = {}

\* The strengthening of ActiveIsNewest: while the store is down, two complete
\* partitions still differ in epoch, so that start-up can tell them apart.
NewestInv ==
  /\ Running /\ HdrStatus(Other(active)) = "USED" =>
       IF pc = "dst_reread" THEN hdr[Other(active)].epoch = epoch + 1
                            ELSE hdr[Other(active)].epoch < epoch
  /\ ~Running /\ HdrStatus(0) = "USED" /\ HdrStatus(1) = "USED" =>
       hdr[0].epoch # hdr[1].epoch

\* The header of the other partition is not complete after it is erased, nor
\* while it is written; and words of complete headers are numbers.
LEMMA NotUsed ==
  /\ \A p \in Part : hdr[p] = BlankHdr => HdrStatus(p) # "USED"
  /\ \A p \in Part : hdr[p].count = FALSE => HdrStatus(p) # "USED"
  /\ HeaderTypeOK => \A p \in Part : HdrStatus(p) = "USED" => hdr[p].epoch \in Nat
BY UsedMeans, HdrTyping DEF BlankHdr, Hdr, HeaderTypeOK, Word

\* Every step keeps the strengthening.
LEMMA NewestStep ==
  ASSUME WritesReported, HeaderInv, HeaderInv', NewestInv, [Next]_vars
  PROVE  NewestInv'
<1> USE PartFacts
<1>0. /\ active \in Part /\ epoch \in Nat /\ Other(active) \in Part /\ hdr \in [Part -> HdrWords]
      /\ pc \in Pc
  BY DEF HeaderInv, HeaderTypeOK, ControlTypeOK
\* Steps that leave the headers and the active partition alone.
<1>1. CASE /\ hdr' = hdr /\ active' = active /\ epoch' = epoch /\ Running /\ Running'
           /\ pc # "dst_reread" /\ pc' # "dst_reread"
  BY <1>1 DEF NewestInv, HdrStatus
<1>2. CASE UNCHANGED vars
  BY <1>2 DEF NewestInv, HdrStatus, Running, vars
<1>3. CASE InitFlash
  <2>1. /\ pc = "off" /\ hdr' = hdr /\ ~Running
        /\ active' = Choose(Used({}))
        /\ Used({}) = {} => pc' = "init_erase"
        /\ Used({}) # {} => pc' = "idle" /\ epoch' = hdr[Choose(Used({}))].epoch
    <3>1. "boot" \notin Faults
      BY DEF WritesReported
    <3>2. PICK unreadable \in {{}} :
            /\ active' = Choose(Used(unreadable))
            /\ IF Used(unreadable) = {}
               THEN pc' = "init_erase" /\ UNCHANGED <<epoch, dir>>
               ELSE pc' = "idle" /\ epoch' = hdr[Choose(Used(unreadable))].epoch
      BY <1>3, <3>1 DEF InitFlash
    <3>3. unreadable = {} /\ pc = "off" /\ hdr' = hdr
      BY <1>3 DEF InitFlash, flash
    <3> QED BY <3>2, <3>3 DEF Running
  <2>2. \A p : HdrStatus(p)' = HdrStatus(p)
    BY <2>1 DEF HdrStatus
  <2>3. CASE Used({}) = {}
    BY <2>1, <2>2, <2>3 DEF NewestInv, Running, InitPc, Used, Part
  <2>4. CASE Used({}) = Part
    <3>1. HdrStatus(0) = "USED" /\ HdrStatus(1) = "USED"
      BY <2>4 DEF Used
    <3>2. hdr[0].epoch \in Nat /\ hdr[1].epoch \in Nat /\ hdr[0].epoch # hdr[1].epoch
      BY <2>1, <3>1, NotUsed DEF NewestInv, HeaderInv
    <3>3. active' = IF hdr[1].epoch > hdr[0].epoch THEN 1 ELSE 0
      BY <2>1, <2>4 DEF Choose
    <3>4. pc' = "idle" /\ epoch' = hdr[active'].epoch
      BY <2>1, <2>4
    <3>5. Other(0) = 1 /\ Other(1) = 0
      BY DEF Other
    <3>6. hdr'[Other(active')].epoch < epoch'
      BY <2>1, <3>2, <3>3, <3>4, <3>5
    <3> QED BY <3>4, <3>6 DEF NewestInv, Running, InitPc
  <2>5. CASE Used({}) # {} /\ Used({}) # Part
    <3>1. Choose(Used({})) \in Used({}) /\ Used({}) \subseteq Part
      BY <2>5 DEF Choose, Used
    <3>2. HdrStatus(Other(active')) # "USED" /\ active' \in Part
      BY <2>1, <2>5, <3>1 DEF Used
    <3>3. HdrStatus(Other(active))' # "USED"
      BY <2>2, <3>2, <2>1 DEF HdrStatus
    <3> QED BY <2>1, <2>5, <3>3 DEF NewestInv, Running, InitPc
  <2> QED BY <2>3, <2>4, <2>5
<1>4. CASE InitStep
  <2>1. /\ pc \in InitPc /\ Write /\ active' = active /\ epoch' = epoch /\ active = 0
        /\ HdrStatus(1) # "USED" /\ pc' # "dst_reread"
    BY <1>4 DEF InitStep, HeaderInv, FormatProgress, InitPc
  <2>2. hdr'[1] = hdr[1]
    <3>1. \E h : hdr' = [hdr EXCEPT ![0] = h]
      BY <2>1, WriteHdr DEF InitPc, HeaderInv
    <3> QED BY <1>0, <3>1
  <2>3. HdrStatus(1)' # "USED" /\ Other(0) = 1
    BY <2>1, <2>2 DEF HdrStatus, Other
  <2> QED BY <2>1, <2>3 DEF NewestInv
<1>5. CASE \/ \E id \in Id, v \in Val : AddObject(id, v)
           \/ \E v \in Val : AddNoSpace(v)
           \/ \E ids \in SUBSET Id : DestroyObjects(ids) \/ DestroyNothing(ids)
           \/ RefuseBad
  <2>1. /\ hdr' = hdr /\ active' = active /\ epoch' = epoch /\ pc = "idle"
        /\ pc' \in {"idle", "obj_epoch", "dst_erase"}
    BY <1>5 DEF AddObject, AddNoSpace, DestroyObjects, DestroyNothing, RefuseBad, Return, flash, ram
  <2> QED BY <1>1, <2>1 DEF Running, InitPc
<1>6. CASE ObjStep \/ ObjCount
  <2>1. /\ active' = active /\ epoch' = epoch /\ pc \in ObjPc /\ Write
        /\ pc' \in ObjPc \union {"dst_count", "idle"}
    BY <1>6 DEF ObjStep, ObjCount, Finish, StartCopy, ObjPc, ram
  <2>2. hdr' = hdr
    BY <2>1, WriteHdr DEF HeaderInv
  <2> QED BY <1>1, <2>1, <2>2 DEF Running, InitPc, ObjPc
<1>7. CASE DstStep
  <2>1. /\ active' = active /\ pc' # "dst_reread" /\ Running'
        /\ pc' = "dst_epoch" \/ pc' = "dst_start" \/ pc' \in {"obj_epoch", "dst_count"}
        /\ pc' = "obj_epoch" => op' = op /\ op.kind = "destroy"
    BY <1>7, KindFacts DEF DstStep, StartCopy, Running, InitPc, ram, HeaderInv, OpProgress, DstPc
  <2>2. hdr'[Other(active)].count = FALSE
    <3>1. \E e \in {Blank, epoch' + 1} : \E s \in BOOLEAN : hdr'[Other(active')] = Hdr(e, s, FALSE)
      BY <2>1 DEF HeaderInv, CopyProgress, ObjPc
    <3> QED BY <2>1, <3>1 DEF Hdr
  <2>3. HdrStatus(Other(active))' # "USED"
    BY <1>0, <2>1, <2>2 DEF HdrStatus, StateStatus
  <2> QED BY <2>1, <2>3 DEF NewestInv
<1>8. CASE DstCount
  <2>1. pc' = "dst_reread"
    BY <1>8 DEF DstCount
  <2>2. hdr'[Other(active')].epoch = epoch' + 1
    BY <2>1 DEF HeaderInv, CopyProgress, Hdr
  <2> QED BY <2>1, <2>2 DEF NewestInv, Running, InitPc
<1>9. CASE DstReread
  <2>1. /\ hdr' = hdr /\ active' = Other(active) /\ epoch' = epoch + 1 /\ pc' = "src_erase" /\ Running
    BY <1>9 DEF DstReread, flash, Running, InitPc
  <2>2. Other(active') = active /\ hdr[active].epoch = epoch
    BY <1>0, <2>1 DEF HeaderInv, ActiveUsed
  <2>3. hdr'[Other(active')].epoch < epoch'
    BY <1>0, <2>1, <2>2
  <2> QED BY <2>1, <2>3 DEF NewestInv, Running, InitPc
<1>10. CASE DstRereadError
  BY <1>10 DEF DstRereadError, WritesReported
<1>11. CASE SrcErase
  <2>1. /\ pc = "src_erase" /\ pc' = "idle" /\ active' = active /\ Write
    BY <1>11 DEF SrcErase, Finish, ram
  <2>2. hdr' = [hdr EXCEPT ![Other(active)] = BlankHdr]
    BY <2>1, WriteHdr DEF HeaderInv
  <2>3. hdr'[Other(active')].count = FALSE
    BY <1>0, <2>1, <2>2 DEF BlankHdr, Hdr
  <2>4. HdrStatus(Other(active))' # "USED"
    BY <2>3 DEF HdrStatus, StateStatus
  <2> QED BY <2>1, <2>4 DEF NewestInv, Running, InitPc
<1>12. CASE FlashError
  <2>1. /\ active' = active /\ epoch' = epoch /\ pc \in WritePc
        /\ PartialWrite \/ UNCHANGED flash
    BY <1>12 DEF FlashError, ram, WritesReported
  <2>2. \/ hdr' = hdr
        \/ pc = "init_erase" /\ hdr' = [hdr EXCEPT ![active] = BlankHdr]
        \/ pc \in {"dst_erase", "src_erase"} /\ hdr' = [hdr EXCEPT ![Other(active)] = BlankHdr]
    BY <2>1, PartialHdr DEF HeaderInv, flash
  <2>3. CASE pc \in InitPc
    <3>1. active = 0 /\ HdrStatus(1) # "USED" /\ pc' = "off"
      BY <1>12, <2>3 DEF FlashError, HeaderInv, FormatProgress
    <3>2. hdr'[1] = hdr[1]
      BY <1>0, <2>2, <2>3, <3>1 DEF InitPc
    <3>3. HdrStatus(1)' # "USED"
      BY <3>1, <3>2 DEF HdrStatus
    <3> QED BY <3>1, <3>3 DEF NewestInv, Running
  <2>4. CASE pc \notin InitPc
    <3>1. pc' = "idle" /\ Running /\ Running' /\ pc # "dst_reread"
      BY <1>12, <2>1, <2>4 DEF FlashError, Finish, Running, InitPc, WritePc
    <3>2. CASE hdr' = hdr
      BY <1>1, <2>1, <3>1, <3>2
    <3>3. CASE hdr' = [hdr EXCEPT ![Other(active)] = BlankHdr]
      <4>1. hdr'[Other(active')].count = FALSE
        BY <1>0, <2>1, <3>3 DEF BlankHdr, Hdr
      <4>2. HdrStatus(Other(active))' # "USED"
        BY <4>1 DEF HdrStatus, StateStatus
      <4> QED BY <3>1, <4>2 DEF NewestInv
    <3> QED BY <2>2, <2>4, <3>2, <3>3 DEF InitPc
  <2> QED BY <2>3, <2>4
<1>13. CASE Reset
  <2>1. pc' = "off" /\ ~Running' /\ (PartialWrite \/ UNCHANGED flash)
    BY <1>13 DEF Reset, Running
  <2>2. \/ hdr' = hdr
        \/ \E p \in Part : hdr' = [hdr EXCEPT ![p] = BlankHdr]
    BY <1>0, <2>1, PartialHdr DEF HeaderInv, flash
  <2>3. CASE hdr' = hdr
    <3>1. HdrStatus(0) = "USED" /\ HdrStatus(1) = "USED" => hdr[0].epoch # hdr[1].epoch
      <4>1. Running /\ HdrStatus(0) = "USED" /\ HdrStatus(1) = "USED" =>
              hdr[active].epoch # hdr[Other(active)].epoch
        BY <1>0, NotUsed DEF NewestInv, HeaderInv, ActiveUsed, Part
      <4>2. (active = 0 /\ Other(active) = 1) \/ (active = 1 /\ Other(active) = 0)
        <5>1. Other(0) = 1 /\ Other(1) = 0
          BY DEF Other
        <5>2. active = 0 \/ active = 1
          BY <1>0 DEF Part
        <5> QED BY <5>1, <5>2
      <4>3. CASE Running
        BY <4>1, <4>2, <4>3
      <4>4. CASE ~Running
        BY <4>4 DEF NewestInv
      <4> QED BY <4>3, <4>4
    <3>2. HdrStatus(0)' = HdrStatus(0) /\ HdrStatus(1)' = HdrStatus(1)
      BY <2>3 DEF HdrStatus
    <3> QED BY <2>1, <2>3, <3>1, <3>2 DEF NewestInv
  <2>4. CASE \E p \in Part : hdr' = [hdr EXCEPT ![p] = BlankHdr]
    <3>1. PICK p \in Part : hdr'[p].count = FALSE
      BY <1>0, <2>4 DEF BlankHdr, Hdr
    <3>2. HdrStatus(p)' # "USED"
      BY <3>1 DEF HdrStatus, StateStatus
    <3> QED BY <2>1, <3>2 DEF NewestInv, Part
  <2> QED BY <2>2, <2>3, <2>4
<1> QED
  BY <1>2, <1>3, <1>4, <1>5, <1>6, <1>7, <1>8, <1>9, <1>10, <1>11, <1>12, <1>13 DEF Next

\* While the store runs, the partition it uses is the one that a reset at that
\* moment would choose.
THEOREM ActiveStaysNewest ==
  ASSUME WritesReported
  PROVE  Spec => []ActiveIsNewest
<1>1. HeadersReadable
  BY DEF WritesReported, HeadersReadable
<1>2. Init => HeaderInv /\ NewestInv
  <2> SUFFICES ASSUME Init PROVE NewestInv
    BY HeaderInit
  <2>1. hdr[0] = BlankHdr /\ ~Running
    BY PartFacts DEF Init, Running
  <2> QED BY <2>1, NotUsed, PartFacts DEF NewestInv
<1>3. HeaderInv /\ NewestInv /\ [Next]_vars => (HeaderInv /\ NewestInv)'
  BY <1>1, HeaderStep, NewestStep
<1>4. HeaderInv /\ NewestInv => ActiveIsNewest
  BY DEF HeaderInv, ActiveUsed, NewestInv, ActiveIsNewest
<1> QED BY <1>2, <1>3, <1>4, PTL DEF Spec

(***************************************************************************)
(* Least and greatest elements, which the code looks for with its loops.   *)
(***************************************************************************)
\* Every set of numbers has a smallest one: otherwise the numbers below all of
\* them would be a finite set that is closed under successor.
LEMMA Smallest ==
  ASSUME NEW S \in SUBSET Nat, S # {}
  PROVE  \E m \in S : \A x \in S : m <= x
<1> SUFFICES ASSUME \A m \in S : \E x \in S : x < m PROVE FALSE
  OBVIOUS
<1> PICK n \in S : TRUE
  OBVIOUS
<1> DEFINE D == {d \in 0..n : \A x \in S : d < x}
           succ == [d \in D |-> d + 1]
<1>1. 0 \in D
  OBVIOUS
<1>2. \A d \in D : d + 1 \in D
  OBVIOUS
<1>3. IsFiniteSet(D)
  <2>1. IsFiniteSet(0..n) /\ D \subseteq 0..n
    BY FS_Interval
  <2> HIDE DEF D
  <2> QED BY <2>1, FS_Subset
<1>4. succ \in Injection(D, D)
  BY <1>2 DEF Injection, IsInjective
<1>5. succ \in Surjection(D, D)
  BY <1>3, <1>4, FS_Injection
<1>6. PICK d \in D : succ[d] = 0
  BY <1>1, <1>5 DEF Surjection
<1> QED BY <1>6

\* ... and every bounded set a largest.
LEMMA Largest ==
  ASSUME NEW n \in Nat, NEW S \in SUBSET (0..n), S # {}
  PROVE  \E m \in S : \A x \in S : x <= m
<1> DEFINE T == {n - x : x \in S}
<1>1. PICK t \in T : \A y \in T : t <= y
  <2>1. \A x \in S : x \in 0..n /\ n - x \in Nat
    OBVIOUS
  <2>2. T \in SUBSET Nat /\ T # {}
    BY <2>1
  <2> HIDE DEF T
  <2> QED BY <2>2, Smallest
<1>2. PICK m \in S : t = n - m
  OBVIOUS
<1>3. \A x \in S : n - x \in T /\ x \in Int
  OBVIOUS
<1>4. \A x \in S : n - m <= n - x
  BY <1>1, <1>2, <1>3
<1> QED BY <1>3, <1>4

\* What Min chooses ...
LEMMA MinMeans ==
  ASSUME NEW S \in SUBSET Nat, S # {}
  PROVE  Min(S) \in S /\ \A x \in S : Min(S) <= x
BY Smallest DEF Min

\* ... and Max of a bounded set.
LEMMA MaxMeans ==
  ASSUME NEW n \in Nat, NEW S \in SUBSET (0..n), S # {}
  PROVE  Max(S) \in S /\ \A x \in S : x <= Max(S)
<1>1. \E m \in S : \A x \in S : m >= x
  BY Largest
<1> QED BY <1>1 DEF Max

(***************************************************************************)
(* What a sound partition is.  An entry reserves units of the data area    *)
(* once its start word is programmed, and counts once its count word is.   *)
(***************************************************************************)
Sized(p, i) == obj[p][i].start # Blank
Whole(p, i) == obj[p][i].count # Blank
End(p, i) == obj[p][i].start + UnitsOf[obj[p][i].meta.val]

\* Entries are written one after the other.
InOrder(p) ==
  \A i \in Entry :
    /\ ~obj[p][i].epoch => obj[p][i] = BlankObj
    /\ obj[p][i].epoch => \A j \in 1..(i - 1) : obj[p][j].epoch

\* What an entry reserves is known, lies in the data area, and begins where all
\* that was reserved before it ends.
Reserved(p) ==
  \A i \in Entry : Sized(p, i) =>
    /\ obj[p][i].meta \in Meta
    /\ obj[p][i].start \in Nat
    /\ End(p, i) <= DataUnits
    /\ \A j \in 1..(i - 1) : Sized(p, j) => End(p, j) <= obj[p][i].start

\* The data of a complete entry is there.
Intact(p) ==
  \A i \in Entry : Whole(p, i) =>
    /\ Sized(p, i)
    /\ obj[p][i].count = UnitsOf[obj[p][i].meta.val]
    /\ \A u \in DataUnit : obj[p][i].start <= u /\ u < End(p, i) => dat[p][u] = obj[p][i].meta.val

\* Whatever was written to the data area is reserved by an entry.
Covered(p) ==
  \A u \in DataUnit : dat[p][u] # Blank => \E i \in Entry : Sized(p, i) /\ u < End(p, i)

Sound(p) == InOrder(p) /\ Reserved(p) /\ Intact(p) /\ Covered(p)

\* Nothing is written in an erased directory and data area.
Empty(p) ==
  /\ \A i \in Entry : obj[p][i] = BlankObj
  /\ \A u \in DataUnit : dat[p][u] = Blank

\* A partition with a complete header is sound, and so is the new one while a
\* destroy copies to it; what is about to be written afresh is empty.
SoundInv ==
  /\ \A p \in Part : HdrStatus(p) = "USED" => Sound(p)
  /\ pc \in InitPc \ {"init_erase"} => Empty(0)
  /\ pc \in {"dst_epoch", "dst_start"} => Empty(Other(active))
  /\ pc \in ObjPc \union {"dst_count"} /\ op.kind = "destroy" => Sound(Other(active))

\* The directory in RAM describes the partition in use: nothing is written
\* behind its first free entry, what it takes for an object is one, and every
\* reservation ends where its free data area begins, or before.
DirInv ==
  Running /\ ~dirBad =>
    /\ \A i \in 1..(dir.next - 1) : obj[active][i].epoch
    /\ \A i \in Entry : i > dir.next => obj[active][i] = BlankObj
    /\ \A i \in Entry : dir.objects[i].status = "USED" =>
         /\ i < dir.next
         /\ Whole(active, i)
         /\ dir.objects[i] = [status |-> "USED", meta |-> obj[active][i].meta,
                              start |-> obj[active][i].start, count |-> obj[active][i].count]
    /\ \A i \in 1..(dir.next - 1) : Sized(active, i) => End(active, i) <= dir.data

\* The directory is found to be bad only when a call returns.
BadInv == dirBad => pc = "idle"

\* What the entry being written holds, by how far the code is with it.
Written ==
  [epoch |-> pc # "obj_epoch",
   meta |-> IF pc \in {"obj_epoch", "obj_meta"} THEN Blank ELSE Target.meta,
   start |-> IF pc \in {"obj_data", "obj_count"} THEN Target.start ELSE Blank,
   count |-> Blank]

\* The entry being written follows all others of its partition, its data goes
\* behind theirs, and a copy never needs more room than what it copies had.
TargetInv ==
  pc \in ObjPc =>
    /\ Target.entry \in Entry
    /\ Target.start \in Nat
    /\ Target.meta \in Meta
    /\ Target.start + Length <= DataUnits
    /\ \A i \in 1..(Target.entry - 1) :
         /\ obj[Target.part][i].epoch
         /\ Sized(Target.part, i) => End(Target.part, i) <= Target.start
    /\ \A i \in Entry : i > Target.entry => obj[Target.part][i] = BlankObj
    /\ pc # "obj_epoch" => TargetObj = Written
    /\ pc = "obj_count" => \A u \in DataUnit :
          Target.start <= u /\ u < Target.start + Length => dat[Target.part][u] = Target.meta.val
    /\ op.kind = "destroy" =>
         /\ cp.src \in Entry /\ dir.objects[cp.src].status = "USED"
         /\ cp.entry <= cp.src
         /\ cp.data <= dir.objects[cp.src].start

\* A complete entry that no later one replaces.
Latest(p, i) ==
  /\ Whole(p, i)
  /\ \A j \in Entry : j > i /\ Whole(p, j) => obj[p][j].meta.id # obj[p][i].meta.id

\* The directory names exactly the latest entries of the partition in use.
DirExact ==
  Running =>
    /\ ~dirBad
    /\ \A i \in Entry : dir.objects[i].status = "USED" <=> Latest(active, i)
    /\ \A i \in Entry : i >= dir.next => ~Whole(active, i)

\* An object that the destroy in progress leaves.
Kept(j) == dir.objects[j].status = "USED" /\ dir.objects[j].meta.id \notin op.ids

\* The entries of q before entry are the objects to keep before src, and there
\* are no others.
Copied(q, src, entry) ==
  /\ \A i \in 1..(entry - 1) :
       /\ Whole(q, i)
       /\ \E j \in 1..(src - 1) : Kept(j) /\ obj[q][i].meta = dir.objects[j].meta
  /\ \A j \in 1..(src - 1) : Kept(j) =>
       \E i \in 1..(entry - 1) : obj[q][i].meta = dir.objects[j].meta
  /\ \A i \in Entry : i >= entry => ~Whole(q, i)

\* The destroy has copied all objects to keep of those it went through.
CopyExact ==
  pc \in {"dst_count", "dst_reread"} \/ (pc \in ObjPc /\ op.kind = "destroy") =>
    /\ cp.src \in Slot /\ cp.entry \in Slot /\ cp.entry <= cp.src
    /\ pc \in ObjPc => Kept(cp.src)
    /\ pc \in {"dst_count", "dst_reread"} => cp.src = ObjectCount + 1
    /\ Copied(Other(active), cp.src, cp.entry)

\* Nothing of what was destroyed is in the partition switched to.
DestroyDone ==
  pc = "src_erase" => \A i \in Entry : Whole(active, i) => obj[active][i].meta.id \notin op.ids

\* The words of an entry, and the units of a data area.
LEMMA FlashTyping ==
  ASSUME FlashTypeOK
  PROVE  /\ BlankObj \in EntryWords
         /\ \A p \in Part : \A i \in Entry :
              /\ obj[p][i] \in EntryWords /\ obj[p][i].epoch \in BOOLEAN
              /\ obj[p][i].meta \in Meta \union {Blank, Torn}
              /\ obj[p][i].start \in Word /\ obj[p][i].count \in Word
         /\ \A p \in Part : \A u \in DataUnit : dat[p][u] \in Val \union {Blank}
         /\ \A m \in Meta : m.id \in Id /\ m.val \in Val /\ UnitsOf[m.val] \in Nat
BY FlashAssumption DEF FlashTypeOK, EntryWords, BlankObj, Word, Meta

\* Indices.
LEMMA Indices ==
  /\ ObjectCount \in Nat /\ DataUnits \in Nat
  /\ \A i \in Entry : i \in Nat /\ i >= 1 /\ i <= ObjectCount /\ \A j \in 1..(i - 1) : j \in Entry
  /\ \A u \in DataUnit : u \in Nat
BY FlashAssumption DEF Entry, DataUnit

\* A partition that is not touched stays sound ...
LEMMA SoundKept ==
  ASSUME NEW p \in Part, obj'[p] = obj[p], dat'[p] = dat[p], Sound(p)
  PROVE  Sound(p)'
BY DEF Sound, InOrder, Reserved, Intact, Covered, Sized, Whole, End

\* ... and an empty one is sound.
LEMMA EmptySound ==
  ASSUME NEW p \in Part, Empty(p)
  PROVE  Sound(p)
<1>1. \A i \in Entry : obj[p][i].epoch = FALSE /\ ~Sized(p, i) /\ ~Whole(p, i)
  BY DEF Empty, BlankObj, Sized, Whole
<1> QED BY <1>1 DEF Empty, Sound, InOrder, Reserved, Intact, Covered

\* Programming the words of one entry, after those before it.
LEMMA SoundProgram ==
  ASSUME FlashTypeOK, NEW p \in Part, NEW e \in Entry, NEW w \in EntryWords, Sound(p),
         obj' = [obj EXCEPT ![p][e] = w], dat' = dat,
         \A i \in 1..(e - 1) : obj[p][i].epoch,
         \A i \in Entry : i > e => obj[p][i] = BlankObj,
         w.epoch,
         Sized(p, e) => w.start = obj[p][e].start /\ w.meta = obj[p][e].meta,
         w.start # Blank =>
           /\ w.meta \in Meta /\ w.start \in Nat /\ w.start + UnitsOf[w.meta.val] <= DataUnits
           /\ \A i \in 1..(e - 1) : Sized(p, i) => End(p, i) <= w.start,
         w.count # Blank =>
           /\ w.start # Blank /\ w.count = UnitsOf[w.meta.val]
           /\ \A u \in DataUnit : w.start <= u /\ u < w.start + UnitsOf[w.meta.val]
                                   => dat[p][u] = w.meta.val
  PROVE  Sound(p)'
<1>1. obj'[p][e] = w /\ \A i \in Entry : i # e => obj'[p][i] = obj[p][i]
  BY DEF FlashTypeOK
<1>2. \A i \in Entry : i > e => ~Sized(p, i)
  BY DEF Sized, BlankObj
<1>3. InOrder(p)'
  BY <1>1, Indices DEF Sound, InOrder
<1>4. Reserved(p)'
  BY <1>1, <1>2, Indices DEF Sound, Reserved, Sized, End
<1>5. Intact(p)'
  BY <1>1 DEF Sound, Intact, Sized, Whole, End
<1>6. Covered(p)'
  <2> SUFFICES ASSUME NEW u \in DataUnit, dat[p][u] # Blank
               PROVE  \E i \in Entry : Sized(p, i)' /\ u < End(p, i)'
    BY DEF Covered
  <2>1. PICK i \in Entry : Sized(p, i) /\ u < End(p, i)
    BY DEF Sound, Covered
  <2>2. Sized(p, i)' /\ End(p, i)' = End(p, i)
    BY <1>1, <2>1 DEF Sized, End
  <2> QED BY <2>1, <2>2
<1> QED BY <1>3, <1>4, <1>5, <1>6 DEF Sound

\* Writing units that were erased, and that an entry reserves.
LEMMA SoundData ==
  ASSUME FlashTypeOK, NEW p \in Part, NEW e \in Entry, Sound(p), obj' = obj, Sized(p, e),
         \A u \in DataUnit : dat'[p][u] # dat[p][u] => dat[p][u] = Blank /\ u < End(p, e)
  PROVE  Sound(p)'
<1>1. InOrder(p)' /\ Reserved(p)'
  BY DEF Sound, InOrder, Reserved, Sized, End
<1>2. Intact(p)'
  <2>1. \A i \in Entry : Whole(p, i) => Sized(p, i) /\ obj[p][i].meta.val # Blank
    BY WordAssumption, FlashTyping DEF Sound, Intact, Reserved
  <2> QED BY <2>1 DEF Sound, Intact, Sized, Whole, End
<1>3. Covered(p)'
  BY DEF Sound, Covered, Sized, End
<1> QED BY <1>1, <1>2, <1>3 DEF Sound

\* Erasing the directory and the data together.
LEMMA SoundErase ==
  ASSUME FlashTypeOK, NEW p \in Part, NEW q \in Part, NEW areas \in PartialErases, Erase(q, areas), Sound(p)
  PROVE  Sound(p)'
<1>1. CASE p # q \/ areas = {"header"}
  <2>1. obj'[p] = obj[p] /\ dat'[p] = dat[p]
    BY <1>1 DEF Erase, FlashTypeOK
  <2> QED BY <2>1, SoundKept
<1>2. CASE p = q /\ areas # {"header"}
  <2>1. Empty(p)'
    BY <1>2 DEF Erase, Empty, FlashTypeOK, PartialErases, Areas
  <2>2. (Empty(p) => Sound(p))'
    BY EmptySound, PTL
  <2> QED BY <2>1, <2>2
<1> QED BY <1>1, <1>2

(***************************************************************************)
(* The directory in RAM, and what is being written.                        *)
(***************************************************************************)
DirTyped ==
  dir \in [objects: [Entry -> MemObject], next: Slot, data: 0..DataUnits,
           recEntries: {dir.recEntries}, recData: {dir.recData}]

\* The invariant of the flash.  DirTyped leaves out the types of the two counters
\* of reclaimable space, on which nothing here depends.
FlashInv == FlashTypeOK /\ DirTyped /\ BadInv /\ SoundInv /\ DirInv /\ TargetInv

\* What nfObject_Program and nfObject_Copy are given.
LEMMA TargetIs ==
  /\ op.kind = "add" =>
       /\ Target.part = active /\ Target.entry = dir.next /\ Target.start = dir.data
       /\ Target.meta = [id |-> op.id, val |-> op.val]
  /\ op.kind # "add" =>
       /\ Target.part = Other(active) /\ Target.entry = cp.entry /\ Target.start = cp.data
       /\ Target.meta = dir.objects[cp.src].meta
BY DEF Target

\* The partition that an entry is written to is sound.
LEMMA TargetFacts ==
  ASSUME HeaderInv, FlashInv, pc \in ObjPc
  PROVE  /\ Running /\ ~dirBad /\ active \in Part /\ Sound(active)
         /\ Target.part \in Part /\ Target.entry \in Entry /\ Sound(Target.part)
         /\ Target.start \in Nat /\ Target.meta \in Meta /\ Length \in Nat
         /\ TargetObj \in EntryWords
         /\ op \in Ops
<1>1. /\ Running /\ ~dirBad /\ active \in Part /\ op \in Ops
      /\ HdrStatus(active) = "USED"
  BY DEF HeaderInv, HeaderTypeOK, ControlTypeOK, ActiveUsed, OpProgress, FlashInv, BadInv, Running,
         InitPc, ObjPc
<1>2. Sound(active) /\ Other(active) \in Part
  BY <1>1, PartFacts DEF FlashInv, SoundInv
<1>3. Target.part \in Part /\ Sound(Target.part)
  <2>1. CASE op.kind = "add"
    BY <1>1, <1>2, <2>1, TargetIs
  <2>2. CASE op.kind # "add"
    BY <1>1, <1>2, <2>2, TargetIs, KindFacts DEF FlashInv, SoundInv
  <2> QED BY <2>1, <2>2
<1>4. /\ Target.entry \in Entry /\ Target.start \in Nat /\ Target.meta \in Meta
  BY DEF FlashInv, TargetInv
<1>5. Length \in Nat /\ TargetObj \in EntryWords
  BY <1>3, <1>4, FlashTyping DEF FlashInv, Length, TargetObj
<1> QED BY <1>1, <1>2, <1>3, <1>4, <1>5

\* The units that are copied, or that the caller gave, are those of the metadata.
LEMMA SourceIs ==
  ASSUME HeaderInv, FlashInv, pc \in ObjPc, NEW k \in Nat, k < Length
  PROVE  Source(k) = Target.meta.val
<1>1. CASE op.kind = "add"
  BY <1>1, TargetIs DEF Source
<1>2. CASE op.kind # "add"
  <2>1. /\ cp.src \in Entry /\ dir.objects[cp.src].status = "USED"
        /\ Running /\ ~dirBad /\ active \in Part /\ Sound(active)
    BY <1>2, TargetFacts, KindFacts DEF FlashInv, TargetInv
  <2>2. /\ Whole(active, cp.src)
        /\ dir.objects[cp.src].meta = obj[active][cp.src].meta
        /\ dir.objects[cp.src].start = obj[active][cp.src].start
    <3>1. /\ Whole(active, cp.src)
          /\ dir.objects[cp.src] = [status |-> "USED", meta |-> obj[active][cp.src].meta,
                start |-> obj[active][cp.src].start, count |-> obj[active][cp.src].count]
      BY <2>1 DEF FlashInv, DirInv
    <3> QED BY <3>1
  <2>3. /\ Target.meta = obj[active][cp.src].meta /\ Length = UnitsOf[obj[active][cp.src].meta.val]
    BY <1>2, <2>2, TargetIs DEF Length
  <2>4. /\ obj[active][cp.src].start \in Nat /\ Length \in Nat
        /\ obj[active][cp.src].start + Length <= DataUnits
    BY <2>1, <2>2, <2>3, TargetFacts DEF Sound, Intact, Reserved, End
  <2>5. obj[active][cp.src].start + k \in DataUnit
    BY <2>4, Indices DEF DataUnit
  <2>6. dat[active][obj[active][cp.src].start + k] = obj[active][cp.src].meta.val
    BY <2>1, <2>2, <2>3, <2>4, <2>5 DEF Sound, Intact, End
  <2> QED BY <1>2, <2>2, <2>3, <2>6 DEF Source
<1> QED BY <1>1, <1>2

\* A state word that is programmed.  (The provers build records of it more easily.)
Programmed == TRUE

\* What an interrupted object looks like, by how far it was written.
LEMMA WrittenAt ==
  /\ pc = "obj_meta" =>
       Written = [epoch |-> Programmed, meta |-> Blank, start |-> Blank, count |-> Blank]
  /\ pc = "obj_start" =>
       Written = [epoch |-> Programmed, meta |-> Target.meta, start |-> Blank, count |-> Blank]
  /\ pc \in {"obj_data", "obj_count"} =>
       Written = [epoch |-> Programmed, meta |-> Target.meta, start |-> Target.start, count |-> Blank]
<1>1. ASSUME pc = "obj_meta"
      PROVE  Written = [epoch |-> Programmed, meta |-> Blank, start |-> Blank, count |-> Blank]
  <2>1. /\ (pc # "obj_epoch") = Programmed
        /\ (IF pc \in {"obj_epoch", "obj_meta"} THEN Blank ELSE Target.meta) = Blank
        /\ (IF pc \in {"obj_data", "obj_count"} THEN Target.start ELSE Blank) = Blank
    BY <1>1 DEF Programmed
  <2> QED BY <2>1, Zenon DEF Written
<1>2. ASSUME pc = "obj_start"
      PROVE  Written = [epoch |-> Programmed, meta |-> Target.meta, start |-> Blank, count |-> Blank]
  <2>1. /\ (pc # "obj_epoch") = Programmed
        /\ (IF pc \in {"obj_epoch", "obj_meta"} THEN Blank ELSE Target.meta) = Target.meta
        /\ (IF pc \in {"obj_data", "obj_count"} THEN Target.start ELSE Blank) = Blank
    BY <1>2 DEF Programmed
  <2> QED BY <2>1, Zenon DEF Written
<1>3. ASSUME pc \in {"obj_data", "obj_count"}
      PROVE  Written = [epoch |-> Programmed, meta |-> Target.meta, start |-> Target.start,
                        count |-> Blank]
  <2>1. /\ (pc # "obj_epoch") = Programmed
        /\ (IF pc \in {"obj_epoch", "obj_meta"} THEN Blank ELSE Target.meta) = Target.meta
        /\ (IF pc \in {"obj_data", "obj_count"} THEN Target.start ELSE Blank) = Target.start
    BY <1>3 DEF Programmed
  <2> QED BY <2>1, Zenon DEF Written
<1> QED BY <1>1, <1>2, <1>3

\* The words of an entry after the write at a place in the code.
Words(at) ==
  CASE at = "obj_epoch" -> [epoch |-> Programmed, meta |-> Blank, start |-> Blank, count |-> Blank]
    [] at = "obj_meta" -> [epoch |-> Programmed, meta |-> Target.meta, start |-> Blank, count |-> Blank]
    [] at = "obj_start" -> [epoch |-> Programmed, meta |-> Target.meta, start |-> Target.start,
                            count |-> Blank]
    [] OTHER -> [epoch |-> Programmed, meta |-> Target.meta, start |-> Target.start, count |-> Length]

\* A call that writes a word of an entry leaves these ...
LEMMA ObjWrite ==
  ASSUME HeaderInv, FlashInv, pc \in ObjPc \ {"obj_data"}, Ready, Write
  PROVE  /\ hdr' = hdr /\ dat' = dat
         /\ obj' = [obj EXCEPT ![Target.part][Target.entry] = Words(pc)]
         /\ pc = "obj_epoch" => TargetObj = BlankObj
<1>1. pc = "obj_epoch" => TargetObj = BlankObj
  BY TargetFacts DEF Ready, Sound, InOrder, TargetObj
<1>2. pc # "obj_epoch" => TargetObj = Written
  BY DEF FlashInv, TargetInv
<1>3. CASE pc = "obj_epoch"
  <2>1. ProgramObj([TargetObj EXCEPT !.epoch = TRUE])
    BY <1>3 DEF Write
  <2>2. [TargetObj EXCEPT !.epoch = TRUE]
          = [epoch |-> Programmed, meta |-> Blank, start |-> Blank, count |-> Blank]
    <3>1. PICK f : f = FALSE
      OBVIOUS
    <3>2. PICK t : t = TRUE
      OBVIOUS
    <3>3. TargetObj = [epoch |-> f, meta |-> Blank, start |-> Blank, count |-> Blank]
      BY <1>1, <1>3, <3>1, Zenon DEF BlankObj
    <3>4. [TargetObj EXCEPT !.epoch = t] = [epoch |-> t, meta |-> Blank, start |-> Blank, count |-> Blank]
      BY <3>3
    <3> QED BY <3>2, <3>4, Zenon DEF Programmed
  <2>3. Words(pc) = [epoch |-> Programmed, meta |-> Blank, start |-> Blank, count |-> Blank]
    BY <1>3 DEF Words
  <2> QED BY <1>1, <2>1, <2>2, <2>3 DEF ProgramObj
<1>4. CASE pc = "obj_meta"
  <2>1. ProgramObj([TargetObj EXCEPT !.meta = Target.meta])
    BY <1>4 DEF Write
  <2>0. TargetObj = [epoch |-> Programmed, meta |-> Blank, start |-> Blank, count |-> Blank]
    BY <1>2, <1>4, WrittenAt
  <2>2. [TargetObj EXCEPT !.meta = Target.meta] =
          [epoch |-> Programmed, meta |-> Target.meta, start |-> Blank, count |-> Blank]
    BY <2>0
  <2>3. Words(pc) = [epoch |-> Programmed, meta |-> Target.meta, start |-> Blank, count |-> Blank]
    BY <1>4 DEF Words
  <2> QED BY <1>4, <2>1, <2>2, <2>3 DEF ProgramObj
<1>5. CASE pc = "obj_start"
  <2>1. ProgramObj([TargetObj EXCEPT !.start = Target.start])
    BY <1>5 DEF Write
  <2>0. TargetObj = [epoch |-> Programmed, meta |-> Target.meta, start |-> Blank, count |-> Blank]
    BY <1>2, <1>5, WrittenAt
  <2>2. [TargetObj EXCEPT !.start = Target.start] =
          [epoch |-> Programmed, meta |-> Target.meta, start |-> Target.start, count |-> Blank]
    BY <2>0
  <2>3. Words(pc) = [epoch |-> Programmed, meta |-> Target.meta, start |-> Target.start, count |-> Blank]
    BY <1>5 DEF Words
  <2> QED BY <1>5, <2>1, <2>2, <2>3 DEF ProgramObj
<1>6. CASE pc = "obj_count"
  <2>1. ProgramObj([TargetObj EXCEPT !.count = Length])
    BY <1>6 DEF Write
  <2>0. TargetObj = [epoch |-> Programmed, meta |-> Target.meta, start |-> Target.start, count |-> Blank]
    BY <1>2, <1>6, WrittenAt
  <2>2. [TargetObj EXCEPT !.count = Length] =
          [epoch |-> Programmed, meta |-> Target.meta, start |-> Target.start, count |-> Length]
    BY <2>0
  <2>3. Words(pc) = [epoch |-> Programmed, meta |-> Target.meta, start |-> Target.start, count |-> Length]
    BY <1>6 DEF Words
  <2> QED BY <1>6, <2>1, <2>2, <2>3 DEF ProgramObj
<1> QED BY <1>3, <1>4, <1>5, <1>6 DEF ObjPc

\* The words of an entry whose metadata was cut short.
TornWords == [epoch |-> Programmed, meta |-> Torn, start |-> Blank, count |-> Blank]

\* ... and one that is cut short leaves the entry alone, or with torn metadata.
LEMMA ObjTorn ==
  ASSUME HeaderInv, FlashInv, pc \in ObjPc \ {"obj_data"}, Ready, PartialWrite
  PROVE  \/ UNCHANGED flash
         \/ /\ pc = "obj_meta" /\ hdr' = hdr /\ dat' = dat
            /\ obj' = [obj EXCEPT ![Target.part][Target.entry] = TornWords]
<1>1. ASSUME pc = "obj_meta"
      PROVE  [TargetObj EXCEPT !.meta = Torn] = TornWords
  <2>1. TargetObj = [epoch |-> Programmed, meta |-> Blank, start |-> Blank, count |-> Blank]
    BY <1>1, WrittenAt DEF FlashInv, TargetInv, ObjPc
  <2> QED BY <2>1 DEF TornWords
<1>2. \/ UNCHANGED flash
      \/ pc = "obj_meta" /\ ProgramObj([TargetObj EXCEPT !.meta = Torn])
  BY DEF PartialWrite, ObjPc
<1> QED BY <1>1, <1>2 DEF ProgramObj

\* The first n units of data.
LEMMA DataWrite ==
  ASSUME HeaderInv, FlashInv, pc = "obj_data", Ready, NEW n \in Nat, n <= Length, ProgramData(n)
  PROVE  /\ hdr' = hdr /\ obj' = obj
         /\ \A p \in Part : p # Target.part => dat'[p] = dat[p]
         /\ \A u \in DataUnit :
              dat'[Target.part][u] = IF Target.start <= u /\ u < Target.start + n
                                     THEN Target.meta.val ELSE dat[Target.part][u]
         /\ \A u \in DataUnit : Target.start <= u /\ u < Target.start + n
                                 => dat[Target.part][u] = Blank
         /\ dat' \in [Part -> [DataUnit -> Val \union {Blank}]]
<1>1. /\ Target.part \in Part /\ Target.start \in Nat /\ Length \in Nat /\ Target.meta.val \in Val
  BY TargetFacts, FlashTyping DEF FlashInv, ObjPc
<1>2. \A u \in DataUnit : u \in Nat
  BY Indices
<1>3. \A u \in DataUnit : Target.start <= u /\ u < Target.start + n
                          => Source(u - Target.start) = Target.meta.val
  BY <1>1, <1>2, SourceIs DEF ObjPc
<1>4. \A u \in DataUnit :
        u \in Target.start..(Target.start + n - 1) <=> Target.start <= u /\ u < Target.start + n
  BY <1>1, <1>2
<1>5. dat' = [dat EXCEPT ![Target.part] = [u \in DataUnit |->
                IF u \in Target.start..(Target.start + n - 1)
                THEN Source(u - Target.start) ELSE dat[Target.part][u]]]
  BY DEF ProgramData
<1>6. /\ \A p \in Part : p # Target.part => dat'[p] = dat[p]
      /\ \A u \in DataUnit :
           dat'[Target.part][u] = IF Target.start <= u /\ u < Target.start + n
                                  THEN Target.meta.val ELSE dat[Target.part][u]
  BY <1>1, <1>3, <1>4, <1>5 DEF FlashInv, FlashTypeOK
<1>7. dat' \in [Part -> [DataUnit -> Val \union {Blank}]]
  <2>1. [u \in DataUnit |-> IF u \in Target.start..(Target.start + n - 1)
                           THEN Source(u - Target.start) ELSE dat[Target.part][u]]
          \in [DataUnit -> Val \union {Blank}]
    BY <1>1, <1>3, <1>4, FlashTyping DEF FlashInv
  <2> QED BY <1>1, <1>5, <2>1 DEF FlashInv, FlashTypeOK
<1>8. \A u \in DataUnit : Target.start <= u /\ u < Target.start + n => dat[Target.part][u] = Blank
  <2>1. \A k \in 0..(Length - 1) : dat[Target.part][Target.start + k] = Blank
    BY DEF Ready
  <2> SUFFICES ASSUME NEW u \in DataUnit, Target.start <= u, u < Target.start + n
               PROVE  dat[Target.part][u] = Blank
    OBVIOUS
  <2>2. u - Target.start \in 0..(Length - 1) /\ Target.start + (u - Target.start) = u
    BY <1>1, <1>2
  <2> QED BY <2>1, <2>2
<1> QED BY <1>6, <1>7, <1>8 DEF ProgramData

\* What a driver call leaves of the entry it is writing.
LEMMA ObjWords ==
  ASSUME HeaderInv, FlashInv, pc \in ObjPc \ {"obj_data"}, NEW w \in {Words(pc), TornWords},
         w = TornWords => pc = "obj_meta",
         obj' = [obj EXCEPT ![Target.part][Target.entry] = w], dat' = dat, Ready
  PROVE  /\ obj' \in [Part -> [Entry -> EntryWords]]
         /\ \A p \in Part : Sound(p) => Sound(p)'
<1>0. PICK p0 \in Part, e0 \in Entry : p0 = Target.part /\ e0 = Target.entry
  BY TargetFacts
<1>1. /\ p0 \in Part /\ e0 \in Entry /\ Sound(p0) /\ Target.start \in Nat /\ Target.meta \in Meta
      /\ Length \in Nat /\ Target.start # Blank /\ Target.meta # Torn /\ FlashTypeOK
  BY <1>0, TargetFacts, WordAssumption DEF FlashInv, Meta
<1>2. /\ w.epoch
      /\ w.meta \in {Blank, Torn, Target.meta} /\ w.start \in {Blank, Target.start}
      /\ w.count \in {Blank, Length}
      /\ w.start # Blank => w.meta = Target.meta /\ pc \in {"obj_start", "obj_count"}
      /\ w.count # Blank => /\ w.start = Target.start /\ w.meta = Target.meta
                             /\ w.count = Length /\ pc = "obj_count"
      /\ pc = "obj_count" => w.start = Target.start /\ w.meta = Target.meta
      /\ w \in EntryWords
  <2>1. CASE w = TornWords
    BY <2>1, <1>1 DEF TornWords, EntryWords, Word, Programmed
  <2>2. CASE w = Words(pc)
    <3>1. CASE pc = "obj_epoch"
      BY <3>1, <2>2, <1>1 DEF Words, EntryWords, Word, Programmed
    <3>2. CASE pc = "obj_meta"
      BY <3>2, <2>2, <1>1 DEF Words, EntryWords, Word, Programmed
    <3>3. CASE pc = "obj_start"
      BY <3>3, <2>2, <1>1 DEF Words, EntryWords, Word, Programmed
    <3>4. CASE pc = "obj_count"
      BY <3>4, <2>2, <1>1 DEF Words, EntryWords, Word, Programmed
    <3> QED BY <3>1, <3>2, <3>3, <3>4 DEF ObjPc
  <2> QED BY <2>1, <2>2
<1>3. pc = "obj_epoch" => TargetObj = BlankObj
  BY TargetFacts DEF Ready, Sound, InOrder, TargetObj
<1>4. Sized(p0, e0) => w.start = obj[p0][e0].start /\ w.meta = obj[p0][e0].meta
  <2>1. CASE pc = "obj_epoch"
    BY <1>0, <2>1, <1>3 DEF Sized, TargetObj, BlankObj
  <2>2. CASE pc \in {"obj_meta", "obj_start"}
    <3>1. TargetObj.start = Blank
      BY <2>2, WrittenAt DEF FlashInv, TargetInv, ObjPc
    <3> QED BY <1>0, <3>1 DEF Sized, TargetObj
  <2>3. CASE pc = "obj_count"
    <3>1. TargetObj.start = Target.start /\ TargetObj.meta = Target.meta
      BY <2>3, WrittenAt DEF FlashInv, TargetInv, ObjPc
    <3> QED BY <1>0, <3>1, <2>3, <1>2 DEF TargetObj
  <2> QED BY <2>1, <2>2, <2>3 DEF ObjPc
<1>5. obj' \in [Part -> [Entry -> EntryWords]]
  BY <1>0, <1>1, <1>2 DEF FlashTypeOK
<1>6. /\ \A i \in 1..(e0 - 1) : obj[p0][i].epoch
      /\ \A i \in 1..(e0 - 1) : Sized(p0, i) => End(p0, i) <= Target.start
      /\ \A i \in Entry : i > e0 => obj[p0][i] = BlankObj
      /\ Target.start + Length <= DataUnits
      /\ pc = "obj_count" => \A u \in DataUnit :
           Target.start <= u /\ u < Target.start + Length => dat[p0][u] = Target.meta.val
  BY <1>0 DEF FlashInv, TargetInv
<1>7. Sound(p0)'
  <2>1. w.start # Blank =>
          /\ w.meta \in Meta /\ w.start \in Nat /\ w.start + UnitsOf[w.meta.val] <= DataUnits
          /\ \A i \in 1..(e0 - 1) : Sized(p0, i) => End(p0, i) <= w.start
    BY <1>1, <1>2, <1>6 DEF Length
  <2>2. w.count # Blank =>
          /\ w.start # Blank /\ w.count = UnitsOf[w.meta.val]
          /\ \A u \in DataUnit : w.start <= u /\ u < w.start + UnitsOf[w.meta.val]
                                  => dat[p0][u] = w.meta.val
    BY <1>1, <1>2, <1>6 DEF Length
  <2>3. obj' = [obj EXCEPT ![p0][e0] = w]
    BY <1>0
  <2> QED BY <1>1, <1>2, <1>4, <1>6, <2>1, <2>2, <2>3, SoundProgram
<1>8. \A p \in Part : p # p0 => obj'[p] = obj[p] /\ dat'[p] = dat[p]
  BY <1>0 DEF FlashInv, FlashTypeOK
<1> QED BY <1>5, <1>7, <1>8, SoundKept

\* ... and of the data.
LEMMA ObjData ==
  ASSUME HeaderInv, FlashInv, pc = "obj_data", Ready, NEW n \in Nat, n <= Length, ProgramData(n)
  PROVE  \A p \in Part : Sound(p) => Sound(p)'
<1>0. PICK p0 \in Part, e0 \in Entry : p0 = Target.part /\ e0 = Target.entry
  BY TargetFacts DEF ObjPc
<1>1. /\ Sound(p0) /\ Target.start \in Nat /\ Length \in Nat /\ Target.start # Blank /\ FlashTypeOK
  BY <1>0, TargetFacts, WordAssumption DEF ObjPc, FlashInv
<1>2. TargetObj.start = Target.start /\ TargetObj.meta = Target.meta
  BY WrittenAt DEF FlashInv, TargetInv, ObjPc
<1>3. Sized(p0, e0) /\ End(p0, e0) = Target.start + Length
  BY <1>0, <1>1, <1>2 DEF Sized, End, TargetObj, Length
<1>4. \A u \in DataUnit : dat'[p0][u] # dat[p0][u] => dat[p0][u] = Blank /\ u < End(p0, e0)
  <2> SUFFICES ASSUME NEW u \in DataUnit, dat'[p0][u] # dat[p0][u]
               PROVE  dat[p0][u] = Blank /\ u < Target.start + Length
    BY <1>3
  <2>1. Target.start <= u /\ u < Target.start + n
    BY <1>0, DataWrite
  <2>2. dat[p0][u] = Blank
    BY <1>0, <2>1, DataWrite
  <2>3. u \in Nat
    BY Indices
  <2> QED BY <1>1, <2>1, <2>2, <2>3
<1>5. obj' = obj /\ \A p \in Part : p # p0 => dat'[p] = dat[p]
  BY <1>0, DataWrite
<1>6. Sound(p0)'
  BY <1>1, <1>3, <1>4, <1>5, SoundData
<1> QED BY <1>5, <1>6, SoundKept

\* Every driver call, whole or cut short.
LEMMA FlashStep ==
  ASSUME HeaderInv, FlashInv, hdr' \in [Part -> HdrWords],
         \/ Ready /\ Write
         \/ pc \in WritePc /\ Ready /\ PartialWrite
         \/ pc \in ErasePc /\ PartialWrite
         \/ UNCHANGED flash
  PROVE  FlashTypeOK' /\ \A p \in Part : Sound(p) => Sound(p)'
<1>0. FlashTypeOK /\ active \in Part /\ Other(active) \in Part
  BY PartFacts DEF FlashInv, HeaderInv, HeaderTypeOK, ControlTypeOK
<1>1. CASE UNCHANGED flash
  <2>1. hdr' = hdr /\ obj' = obj /\ dat' = dat
    BY <1>1 DEF flash
  <2>2. FlashTypeOK'
    BY <1>0, <2>1 DEF FlashTypeOK
  <2> QED BY <2>1, <2>2, SoundKept
<1>2. CASE \E q \in Part, areas \in PartialErases : Erase(q, areas)
  <2>1. PICK q \in Part, areas \in PartialErases : Erase(q, areas)
    BY <1>2
  <2>2. /\ [i \in Entry |-> BlankObj] \in [Entry -> EntryWords]
        /\ [u \in DataUnit |-> Blank] \in [DataUnit -> Val \union {Blank}]
    BY <1>0, FlashTyping
  <2>3. FlashTypeOK'
    BY <1>0, <2>1, <2>2 DEF Erase, FlashTypeOK
  <2> QED BY <1>0, <2>1, <2>3, SoundErase
<1>3. CASE obj' = obj /\ dat' = dat
  BY <1>0, <1>3, SoundKept DEF FlashTypeOK
<1>4. CASE pc \in ObjPc /\ Ready /\ (Write \/ PartialWrite)
  <2>1. CASE pc = "obj_data"
    <3>1. CASE \E n \in Nat : n <= Length /\ ProgramData(n)
      <4>1. PICK n \in Nat : n <= Length /\ ProgramData(n)
        BY <3>1
      <4>2. obj' = obj /\ dat' \in [Part -> [DataUnit -> Val \union {Blank}]]
        BY <1>4, <2>1, <4>1, DataWrite
      <4>3. FlashTypeOK'
        BY <1>0, <4>2 DEF FlashTypeOK
      <4> QED BY <1>4, <2>1, <4>1, <4>3, ObjData
    <3>2. Length \in Nat
      BY <1>4, TargetFacts
    <3>3. \/ \E n \in Nat : n <= Length /\ ProgramData(n)
          \/ UNCHANGED flash
      BY <1>4, <2>1, <3>2 DEF Write, PartialWrite
    <3> QED BY <3>1, <3>3, <1>1
  <2>2. CASE pc # "obj_data"
    <3>1. CASE Write
      <4>1. /\ dat' = dat
            /\ obj' = [obj EXCEPT ![Target.part][Target.entry] = Words(pc)]
        BY <1>4, <2>2, <3>1, ObjWrite
      <4>2. Words(pc) = TornWords => pc = "obj_meta"
        <5>1. TornWords.meta = Torn
          BY DEF TornWords
        <5>2. Words(pc).meta \in {Blank, Target.meta} /\ Target.meta \in Meta
          BY <1>4, TargetFacts DEF Words
        <5> QED BY <5>1, <5>2, WordAssumption DEF Meta
      <4> QED BY <1>0, <1>4, <2>2, <4>1, <4>2, ObjWords DEF FlashTypeOK
    <3>2. CASE PartialWrite
      <4>1. CASE pc = "obj_meta" /\ dat' = dat
                 /\ obj' = [obj EXCEPT ![Target.part][Target.entry] = TornWords]
        BY <1>0, <1>4, <2>2, <4>1, ObjWords DEF FlashTypeOK
      <4> QED BY <1>1, <1>4, <2>2, <3>2, <4>1, ObjTorn
    <3> QED BY <1>4, <3>1, <3>2
  <2> QED BY <2>1, <2>2
<1>5. CASE pc \notin ObjPc /\ Write
  <2>1. \/ \E q \in Part, areas \in PartialErases : Erase(q, areas)
        \/ obj' = obj /\ dat' = dat
    BY <1>0, <1>5 DEF Write, ObjPc, PartialErases, ProgramHdr, ProgramHdrEpoch, ProgramHdrStart,
       ProgramHdrCount
  <2> QED BY <1>2, <1>3, <2>1
<1>6. CASE pc \notin ObjPc /\ PartialWrite
  <2>1. \/ \E q \in Part, areas \in PartialErases : Erase(q, areas)
        \/ UNCHANGED flash
    BY <1>0, <1>6 DEF PartialWrite, ObjPc
  <2> QED BY <1>1, <1>2, <2>1
<1>7. \A x \in ErasePc : x \notin ObjPc
  BY DEF ErasePc, ObjPc
<1> QED BY <1>1, <1>4, <1>5, <1>6, <1>7

\* A partition becomes complete when its count word is written.
LEMMA UsedGrows ==
  ASSUME HeaderInv, NEW p \in Part, HdrStatus(p)' = "USED", Write \/ PartialWrite \/ UNCHANGED flash
  PROVE  \/ HdrStatus(p) = "USED"
         \/ pc = "init_count" /\ p = active
         \/ pc = "dst_count" /\ p = Other(active)
<1>1. HeaderTypeOK /\ active \in Part /\ Other(active) \in Part /\ hdr \in [Part -> HdrWords]
  BY PartFacts DEF HeaderInv, HeaderTypeOK, ControlTypeOK
<1>2. hdr'[p].count
  BY UsedMeans DEF HdrStatus, StateStatus
<1>3. CASE hdr'[p] = hdr[p]
  BY <1>3 DEF HdrStatus
<1>4. ~BlankHdr.count
  BY DEF BlankHdr, Hdr
<1>5. CASE ~Write /\ hdr'[p] # hdr[p]
  <2>1. hdr'[p] = BlankHdr
    BY <1>1, <1>5, PartialHdr DEF flash
  <2> QED BY <1>2, <1>4, <2>1
<1>6. CASE Write /\ hdr'[p] # hdr[p]
  <2>1. pc \in {"init_erase", "dst_erase", "src_erase"} => hdr'[p] = BlankHdr
    BY <1>1, <1>6, WriteHdr
  <2>2. pc \in ObjPc => hdr' = hdr
    BY <1>1, <1>6, WriteHdr
  <2>3. pc \in {"init_epoch", "init_start"} => ~hdr'[p].count
    <3> SUFFICES ASSUME pc \in {"init_epoch", "init_start"} PROVE ~hdr'[p].count
      OBVIOUS
    <3>1. hdr[active] \in {Hdr(Blank, FALSE, FALSE), Hdr(0, FALSE, FALSE)}
      BY DEF HeaderInv, FormatProgress, InitPc
    <3>2. ~hdr[active].count
      BY <3>1 DEF Hdr
    <3>3. p = active
      BY <1>1, <1>6, WriteHdr
    <3>4. PICK c : c = hdr[active].count
      OBVIOUS
    <3>7. /\ pc = "init_epoch" => hdr'[p] = Hdr(0, hdr[active].start, hdr[active].count)
          /\ pc = "init_start" => hdr'[p] = Hdr(hdr[active].epoch, TRUE, hdr[active].count)
      BY <1>1, <1>6, <3>3, WriteHdr
    <3>5. PICK e, s : hdr'[p] = Hdr(e, s, c)
      BY <3>4, <3>7, Zenon
    <3>6. hdr'[p].count = c
      BY <3>5, HdrParts
    <3> QED BY <3>2, <3>4, <3>6, Zenon
  <2>4. pc \in {"dst_epoch", "dst_start"} => ~hdr'[p].count
    <3> SUFFICES ASSUME pc \in {"dst_epoch", "dst_start"} PROVE ~hdr'[p].count
      OBVIOUS
    <3>1. hdr[Other(active)] \in {Hdr(Blank, FALSE, FALSE), Hdr(epoch + 1, FALSE, FALSE)}
      BY DEF HeaderInv, CopyProgress
    <3>2. ~hdr[Other(active)].count
      BY <3>1 DEF Hdr
    <3>3. p = Other(active)
      BY <1>1, <1>6, WriteHdr
    <3>4. PICK c : c = hdr[Other(active)].count
      OBVIOUS
    <3>7. /\ pc = "dst_epoch" => hdr'[p] = Hdr(epoch + 1, hdr[Other(active)].start, hdr[Other(active)].count)
          /\ pc = "dst_start" => hdr'[p] = Hdr(hdr[Other(active)].epoch, TRUE, hdr[Other(active)].count)
      BY <1>1, <1>6, <3>3, WriteHdr
    <3>5. PICK e, s : hdr'[p] = Hdr(e, s, c)
      BY <3>4, <3>7, Zenon
    <3>6. hdr'[p].count = c
      BY <3>5, HdrParts
    <3> QED BY <3>2, <3>4, <3>6, Zenon
  <2>5. pc = "init_count" => p = active
    BY <1>1, <1>6, WriteHdr
  <2>6. pc = "dst_count" => p = Other(active)
    BY <1>1, <1>6, WriteHdr
  <2>7. pc \in {"init_erase", "init_epoch", "init_start", "init_count", "dst_erase", "dst_epoch",
                "dst_start", "dst_count", "src_erase"} \union ObjPc
    BY <1>6 DEF Write, ObjPc
  <2> QED BY <1>2, <1>4, <1>6, <2>1, <2>2, <2>3, <2>4, <2>5, <2>6, <2>7
<1> QED BY <1>3, <1>5, <1>6

(***************************************************************************)
(* Reading a directory back from a sound partition.                        *)
(***************************************************************************)
\* An entry of a sound partition, as its state words tell.
LEMMA EntryFacts ==
  ASSUME FlashTypeOK, NEW p \in Part, Sound(p), NEW i \in Entry
  PROVE  /\ Whole(p, i) => Sized(p, i) /\ obj[p][i].count = UnitsOf[obj[p][i].meta.val]
         /\ Sized(p, i) => /\ obj[p][i].epoch /\ obj[p][i].meta \in Meta /\ obj[p][i].start \in Nat
                           /\ UnitsOf[obj[p][i].meta.val] \in Nat /\ End(p, i) \in Nat
                           /\ End(p, i) <= DataUnits
         /\ ~obj[p][i].epoch => obj[p][i] = BlankObj /\ ~Sized(p, i) /\ ~Whole(p, i)
<1>1. Whole(p, i) => Sized(p, i) /\ obj[p][i].count = UnitsOf[obj[p][i].meta.val]
  BY DEF Sound, Intact
<1>2. ~obj[p][i].epoch => obj[p][i] = BlankObj /\ ~Sized(p, i) /\ ~Whole(p, i)
  <2>1. BlankObj.start = Blank /\ BlankObj.count = Blank
    BY DEF BlankObj
  <2>2. ~obj[p][i].epoch => obj[p][i] = BlankObj
    BY DEF Sound, InOrder
  <2> QED BY <2>1, <2>2 DEF Sized, Whole
<1>3. Sized(p, i) => obj[p][i].meta \in Meta /\ obj[p][i].start \in Nat /\ End(p, i) <= DataUnits
  BY DEF Sound, Reserved
<1>4. \A m \in Meta : UnitsOf[m.val] \in Nat
  BY FlashTyping
<1> QED BY <1>1, <1>2, <1>3, <1>4 DEF End

\* What nfMemObject_Read makes of it.
LEMMA ReadIs ==
  ASSUME FlashTypeOK, NEW p \in Part, Sound(p), NEW i \in Entry, NEW r, r = ReadObject(obj[p][i])
  PROVE  /\ r.status = "FREE" <=> ~obj[p][i].epoch
         /\ r.status = "USED" <=> Whole(p, i)
         /\ r.status = "META_BAD" <=> obj[p][i].epoch /\ ~Sized(p, i)
         /\ r \in MemObject
         /\ Sized(p, i) => r.start = obj[p][i].start /\ r.meta = obj[p][i].meta
                           /\ Extent(r) = UnitsOf[obj[p][i].meta.val]
         /\ Whole(p, i) => r = [status |-> "USED", meta |-> obj[p][i].meta,
                                start |-> obj[p][i].start, count |-> obj[p][i].count]
<1> DEFINE s == StateStatus(obj[p][i].epoch, obj[p][i].start # Blank, obj[p][i].count # Blank)
<1>1. /\ s = "FREE" <=> ~obj[p][i].epoch
      /\ s = "USED" <=> Whole(p, i)
      /\ s = "DATA_BAD" <=> Sized(p, i) /\ ~Whole(p, i)
      /\ s = "META_BAD" <=> obj[p][i].epoch /\ ~Sized(p, i)
      /\ s \in Status
  BY EntryFacts DEF StateStatus, Sized, Whole, Status
<1>2. r = CASE s = "USED" -> [status |-> s, meta |-> obj[p][i].meta, start |-> obj[p][i].start,
                              count |-> obj[p][i].count]
            [] s = "DATA_BAD" -> [status |-> s, meta |-> obj[p][i].meta, start |-> obj[p][i].start,
                                  count |-> 0]
            [] OTHER -> [NoObject EXCEPT !.status = s]
  BY DEF ReadObject
<1> HIDE DEF s
<1>3. CASE s = "USED"
  <2>1. r = [status |-> "USED", meta |-> obj[p][i].meta,
             start |-> obj[p][i].start, count |-> obj[p][i].count]
    BY <1>2, <1>3
  <2> QED BY <1>1, <1>3, <2>1, EntryFacts DEF MemObject, Status, Extent
<1>4. CASE s = "DATA_BAD"
  <2>1. r = [status |-> "DATA_BAD", meta |-> obj[p][i].meta, start |-> obj[p][i].start, count |-> 0]
    BY <1>2, <1>4
  <2> QED BY <1>1, <1>4, <2>1, EntryFacts DEF MemObject, Status, Extent
<1>5. CASE s \notin {"USED", "DATA_BAD"}
  <2>1. r = [status |-> s, meta |-> Blank, start |-> 0, count |-> 0]
    BY <1>2, <1>5 DEF NoObject
  <2> QED BY <1>1, <1>5, <2>1, EntryFacts DEF MemObject, Status
<1> QED BY <1>3, <1>4, <1>5

\* Any directory of USED entries in a sound partition has the shape of one.
LEMMA DirectoryRead ==
  ASSUME FlashTypeOK, NEW p \in Part, Sound(p), NEW d, d = ReadDirectory(p)
  PROVE  /\ d \in [objects: [Entry -> MemObject], next: Slot, data: 0..DataUnits,
                   recEntries: {d.recEntries}, recData: {d.recData}]
         /\ \A i \in 1..(d.next - 1) : obj[p][i].epoch
         /\ \A i \in Entry : i >= d.next => obj[p][i] = BlankObj
         /\ \A i \in Entry : d.objects[i].status = "USED" <=> Latest(p, i)
         /\ \A i \in Entry : Latest(p, i) =>
              d.objects[i] = [status |-> "USED", meta |-> obj[p][i].meta,
                              start |-> obj[p][i].start, count |-> obj[p][i].count]
         /\ \A i \in 1..(d.next - 1) : Sized(p, i) => End(p, i) <= d.data
<1> DEFINE os == [i \in Entry |-> ReadObject(obj[p][i])]
           free == {i \in Entry : os[i].status = "FREE"}
           sized == {i \in 1..(d.next - 1) : os[i].status # "META_BAD"}
           top == IF sized = {} THEN 0 ELSE os[Max(sized)].start + Extent(os[Max(sized)])
           old == {i \in Entry : Superseded(os, i)}
           objects == [i \in Entry |-> IF i \in old THEN [os[i] EXCEPT !.status = "DATA_BAD"] ELSE os[i]]
<1>1. \E e, r : d = [objects |-> objects, next |-> Min(free \union {ObjectCount + 1}),
                     data |-> Min({top, DataUnits}), recEntries |-> e, recData |-> r]
  <2> DEFINE n0 == Min(free \union {ObjectCount + 1})
             sized0 == {i \in 1..(n0 - 1) : os[i].status # "META_BAD"}
             top0 == IF sized0 = {} THEN 0 ELSE os[Max(sized0)].start + Extent(os[Max(sized0)])
  <2>1. d = Parse(os)
    BY DEF ReadDirectory
  <2>2. \E e, r : d = [objects |-> objects, next |-> n0,
                     data |-> Min({top0, DataUnits}), recEntries |-> e, recData |-> r]
    BY <2>1, Zenon DEF Parse
  <2>3. d.next = n0
    <3> HIDE DEF n0, top0, objects
    <3> QED BY <2>2
  <2>4. sized = sized0
    BY <2>3
  <2>5. top = top0
    <3> HIDE DEF sized, sized0
    <3> QED BY <2>4
  <2> HIDE DEF n0, top0, top, objects
  <2> QED BY <2>2, <2>5 DEF n0
<1>2. \A i \in Entry : os[i] = ReadObject(obj[p][i])
  OBVIOUS
<1> HIDE DEF os
<1>3. \A i \in Entry :
        /\ os[i].status = "FREE" <=> ~obj[p][i].epoch
        /\ os[i].status = "USED" <=> Whole(p, i)
        /\ os[i].status = "META_BAD" <=> obj[p][i].epoch /\ ~Sized(p, i)
        /\ os[i] \in MemObject
        /\ Sized(p, i) => os[i].start = obj[p][i].start /\ os[i].meta = obj[p][i].meta
                          /\ Extent(os[i]) = UnitsOf[obj[p][i].meta.val]
        /\ Whole(p, i) => os[i] = [status |-> "USED", meta |-> obj[p][i].meta,
                                   start |-> obj[p][i].start, count |-> obj[p][i].count]
  BY <1>2, ReadIs
<1>4. /\ d.objects = objects /\ d.next = Min(free \union {ObjectCount + 1})
      /\ d.data = Min({top, DataUnits})
      /\ d = [objects |-> d.objects, next |-> d.next, data |-> d.data,
              recEntries |-> d.recEntries, recData |-> d.recData]
  <2> HIDE DEF objects, free, top
  <2> QED BY <1>1
<1>5. /\ d.next \in free \union {ObjectCount + 1}
      /\ \A i \in free \union {ObjectCount + 1} : d.next <= i
  <2>1. free \union {ObjectCount + 1} \subseteq Nat /\ free \union {ObjectCount + 1} # {}
    BY Indices
  <2> HIDE DEF free
  <2> QED BY <1>4, <2>1, MinMeans
<1>6. d.next \in Slot /\ d.next \in Nat /\ \A i \in 1..(d.next - 1) : i \in Entry /\ i \in Nat
  BY <1>5, Indices DEF Slot, Entry
<1>7. \A i \in 1..(d.next - 1) : obj[p][i].epoch
  <2> SUFFICES ASSUME NEW i \in 1..(d.next - 1), ~obj[p][i].epoch PROVE FALSE
    OBVIOUS
  <2>1. i \in free
    BY <1>3, <1>6
  <2> QED BY <1>5, <1>6, <2>1
<1>8. \A i \in Entry : i >= d.next => obj[p][i] = BlankObj
  <2> SUFFICES ASSUME NEW i \in Entry, i >= d.next PROVE ~obj[p][i].epoch
    BY EntryFacts
  <2>1. d.next \in Entry
    BY <1>6, Indices DEF Entry, Slot
  <2>2. ~obj[p][d.next].epoch
    <3>1. d.next # ObjectCount + 1
      BY <2>1, Indices
    <3>2. d.next \in free
      BY <1>5, <3>1
    <3> QED BY <1>3, <3>2
  <2>3. d.next = i \/ d.next \in 1..(i - 1)
    BY <2>1, Indices
  <2> QED BY <2>2, <2>3 DEF Sound, InOrder
<1>9. \A i \in Entry : i \in old <=> Whole(p, i) /\ ~Latest(p, i)
  <2> SUFFICES ASSUME NEW i \in Entry, Whole(p, i)
               PROVE  Superseded(os, i) <=> ~Latest(p, i)
    BY <1>3 DEF Superseded, Latest
  <2>1. \A j \in Entry : Whole(p, j) => os[j].meta = obj[p][j].meta
    BY <1>3
  <2> QED BY <1>3, <2>1 DEF Superseded, Latest
<1>10. \A i \in Entry : d.objects[i].status = "USED" <=> Latest(p, i)
  <2> SUFFICES ASSUME NEW i \in Entry
               PROVE  objects[i].status = "USED" <=> Latest(p, i)
    BY <1>4
  <2> HIDE DEF old
  <2>1. CASE i \in old
    BY <1>3, <1>9, <2>1 DEF MemObject
  <2>2. CASE i \notin old
    BY <1>3, <1>9, <2>2 DEF Latest
  <2> QED BY <2>1, <2>2
<1>11. \A i \in Entry : Latest(p, i) =>
         d.objects[i] = [status |-> "USED", meta |-> obj[p][i].meta,
                         start |-> obj[p][i].start, count |-> obj[p][i].count]
  <2> SUFFICES ASSUME NEW i \in Entry, Latest(p, i)
               PROVE  objects[i] = [status |-> "USED", meta |-> obj[p][i].meta,
                                    start |-> obj[p][i].start, count |-> obj[p][i].count]
    BY <1>4
  <2> HIDE DEF old
  <2>1. Whole(p, i) /\ i \notin old
    BY <1>9 DEF Latest
  <2>2. objects[i] = os[i]
    BY <2>1
  <2> QED BY <1>3, <2>1, <2>2
<1>12. d.objects \in [Entry -> MemObject]
  <2> HIDE DEF old
  <2>1. \A o \in MemObject : [o EXCEPT !.status = "DATA_BAD"] \in MemObject
    BY DEF MemObject, Status
  <2>2. \A i \in Entry : os[i] \in MemObject
    BY <1>3
  <2> QED BY <1>4, <2>1, <2>2
<1>13. d.data \in 0..DataUnits /\ \A i \in 1..(d.next - 1) : Sized(p, i) => End(p, i) <= d.data
  <2>1. \A i \in 1..(d.next - 1) : i \in sized <=> Sized(p, i)
    BY <1>3, <1>6, <1>7
  <2>2. CASE sized = {}
    <3>1. {0, DataUnits} \subseteq Nat /\ d.data = Min({0, DataUnits})
      BY <1>4, <2>2, Indices
    <3>2. d.data = 0
      BY <3>1, MinMeans, Indices
    <3> QED BY <2>1, <2>2, <3>2, Indices
  <2>3. CASE sized # {}
    <3> DEFINE m == Max(sized)
    <3>1. m \in sized /\ \A i \in sized : m >= i
      <4>1. sized \subseteq 0..ObjectCount
        BY <1>6, Indices
      <4> HIDE DEF sized
      <4> QED BY <2>3, <4>1, MaxMeans, Indices
    <3>0. top = os[m].start + Extent(os[m])
      <4> HIDE DEF sized
      <4> QED BY <2>3
    <3> HIDE DEF m, sized, top
    <3>2. m \in 1..(d.next - 1) /\ m \in Entry /\ Sized(p, m)
      BY <1>6, <2>1, <3>1 DEF sized
    <3>3. top = End(p, m) /\ top \in Nat /\ top <= DataUnits
      <4>1. os[m].start = obj[p][m].start /\ Extent(os[m]) = UnitsOf[obj[p][m].meta.val]
        BY <1>3, <3>2
      <4>2. End(p, m) \in Nat /\ End(p, m) <= DataUnits
        BY <3>2, EntryFacts
      <4> QED BY <3>0, <4>1, <4>2 DEF End
    <3>4. d.data = End(p, m)
      <4>1. {top, DataUnits} \subseteq Nat
        BY <3>3, Indices
      <4>2. /\ Min({top, DataUnits}) \in {top, DataUnits}
            /\ Min({top, DataUnits}) <= top
        BY <4>1, MinMeans
      <4> QED BY <1>4, <3>3, <4>2, Indices
    <3>5. \A i \in 1..(d.next - 1) : Sized(p, i) => End(p, i) <= End(p, m)
      <4> SUFFICES ASSUME NEW i \in 1..(d.next - 1), Sized(p, i), i # m
                   PROVE  End(p, i) <= End(p, m)
        BY <3>2, <3>3
      <4>1. i \in 1..(m - 1)
        BY <1>6, <2>1, <3>1, <3>2
      <4>2. End(p, i) <= obj[p][m].start
        BY <3>2, <4>1 DEF Sound, Reserved
      <4>3. obj[p][m].start <= End(p, m)
        BY <3>2, EntryFacts DEF End
      <4>4. End(p, i) \in Nat /\ End(p, m) \in Nat /\ obj[p][m].start \in Nat
        BY <1>6, <3>2, EntryFacts
      <4> QED BY <4>2, <4>3, <4>4
    <3> QED BY <3>3, <3>4, <3>5, Indices
  <2> QED BY <2>2, <2>3
<1>14. d \in [objects: [Entry -> MemObject], next: Slot, data: 0..DataUnits,
              recEntries: {d.recEntries}, recData: {d.recData}]
  BY <1>4, <1>6, <1>12, <1>13
<1> HIDE DEF objects, top, sized, free, old
<1> QED BY <1>7, <1>8, <1>10, <1>11, <1>13, <1>14

(***************************************************************************)
(* The directory in RAM describes the partition in use.                    *)
(***************************************************************************)
\* It is read from flash ...
LEMMA DirRead ==
  ASSUME FlashTypeOK, NEW p \in Part, Sound(p), dir' = ReadDirectory(p), obj' = obj, active' = p
  PROVE  DirTyped' /\ DirInv'
<1> DEFINE d == dir'
<1>1. /\ d \in [objects: [Entry -> MemObject], next: Slot, data: 0..DataUnits,
                recEntries: {d.recEntries}, recData: {d.recData}]
      /\ \A i \in 1..(d.next - 1) : obj[p][i].epoch
      /\ \A i \in Entry : i >= d.next => obj[p][i] = BlankObj
      /\ \A i \in Entry : d.objects[i].status = "USED" <=> Latest(p, i)
      /\ \A i \in Entry : Latest(p, i) =>
           d.objects[i] = [status |-> "USED", meta |-> obj[p][i].meta,
                           start |-> obj[p][i].start, count |-> obj[p][i].count]
      /\ \A i \in 1..(d.next - 1) : Sized(p, i) => End(p, i) <= d.data
  BY DirectoryRead
<1> HIDE DEF d
<1>2. DirTyped'
  BY <1>1 DEF DirTyped, d
<1>3. d.next \in Nat /\ \A i \in Entry : i \in Nat /\ (i > d.next => i >= d.next)
  BY <1>1, Indices DEF Slot
<1>4. \A i \in Entry : d.objects[i].status = "USED" => i < d.next /\ Whole(p, i)
  BY <1>1, <1>3 DEF Latest, Whole, BlankObj
<1>5. \A i : Sized(p, i)' = Sized(p, i) /\ End(p, i)' = End(p, i) /\ Whole(p, i)' = Whole(p, i)
  BY DEF Sized, End, Whole
<1>6. DirInv'
  <2>1. /\ \A i \in 1..(d.next - 1) : obj'[p][i].epoch
        /\ \A i \in Entry : i > d.next => obj'[p][i] = BlankObj
    BY <1>1, <1>3
  <2>2. \A i \in Entry : d.objects[i].status = "USED" =>
         /\ i < d.next
         /\ Whole(p, i)'
         /\ d.objects[i] = [status |-> "USED", meta |-> obj'[p][i].meta,
                            start |-> obj'[p][i].start, count |-> obj'[p][i].count]
    BY <1>1, <1>4, <1>5
  <2>3. \A i \in 1..(d.next - 1) : Sized(p, i)' => End(p, i)' <= d.data
    BY <1>1, <1>5
  <2> QED BY <2>1, <2>2, <2>3 DEF DirInv, d, Sized, End, Whole
<1> QED BY <1>2, <1>6

\* ... and left as it is while at most the first free entry changes ...
LEMMA DirKept ==
  ASSUME DirInv, DirTyped, dir' = dir, active' = active, Running, ~dirBad,
         \A i \in Entry : i # dir.next => obj'[active][i] = obj[active][i]
  PROVE  DirInv' /\ DirTyped'
<1>1. DirTyped'
  BY DEF DirTyped
<1>2. dir.next \in Nat /\ \A i \in 1..(dir.next - 1) : i \in Entry /\ i # dir.next
  BY Indices DEF DirTyped, Slot, Entry
<1>3. \A i \in Entry : i \in Nat
  BY Indices
<1>4. /\ \A i \in 1..(dir.next - 1) : obj'[active][i].epoch
      /\ \A i \in Entry : i > dir.next => obj'[active][i] = BlankObj
  BY <1>2, <1>3 DEF DirInv
<1>5. \A i \in Entry : dir.objects[i].status = "USED" =>
         /\ i < dir.next
         /\ Whole(active, i)'
         /\ dir.objects[i] = [status |-> "USED", meta |-> obj'[active][i].meta,
                              start |-> obj'[active][i].start, count |-> obj'[active][i].count]
  <2> SUFFICES ASSUME NEW i \in Entry, dir.objects[i].status = "USED"
               PROVE  /\ i < dir.next
                      /\ Whole(active, i)'
                      /\ dir.objects[i] = [status |-> "USED", meta |-> obj'[active][i].meta,
                              start |-> obj'[active][i].start, count |-> obj'[active][i].count]
    OBVIOUS
  <2>1. /\ i < dir.next /\ Whole(active, i)
        /\ dir.objects[i] = [status |-> "USED", meta |-> obj[active][i].meta,
                             start |-> obj[active][i].start, count |-> obj[active][i].count]
    BY DEF DirInv
  <2>2. obj'[active][i] = obj[active][i]
    BY <1>2, <1>3, <2>1
  <2> QED BY <2>1, <2>2 DEF Whole
<1>6. \A i \in 1..(dir.next - 1) : Sized(active, i)' => End(active, i)' <= dir.data
  BY <1>2 DEF DirInv, Sized, End
<1> QED BY <1>1, <1>4, <1>5, <1>6 DEF DirInv

\* ... or gains the entry that was written.
LEMMA AppendedIs ==
  ASSUME DirTyped, dir.next \in Entry, Target.meta \in Meta, Length \in Nat, dir.data \in Nat,
         dir.data + Length <= DataUnits, NEW a, a = Appended
  PROVE  /\ a \in [objects: [Entry -> MemObject], next: Slot, data: 0..DataUnits,
                   recEntries: {a.recEntries}, recData: {a.recData}]
         /\ a.next = dir.next + 1 /\ a.data = dir.data + Length
         /\ a.objects[dir.next] = [status |-> "USED", meta |-> Target.meta, start |-> dir.data,
                                   count |-> Length]
         /\ \A i \in Entry : i # dir.next =>
              \/ a.objects[i] = dir.objects[i]
              \/ i \in Find(dir, op.id) /\ a.objects[i].status = "DATA_BAD"
         /\ Find(dir, op.id) # {} => \E i \in Find(dir, op.id) : a.objects[i].status = "DATA_BAD"
<1> DEFINE old == Find(dir, op.id)
           new == [status |-> "USED", meta |-> Target.meta, start |-> dir.data, count |-> Length]
           objects == [dir.objects EXCEPT ![dir.next] = new]
           grown == [dir EXCEPT !.objects = objects, !.next = @ + 1, !.data = @ + Length]
           one == Min(old)
<1>1. /\ dir.objects \in [Entry -> MemObject] /\ dir.next \in Nat /\ dir.next + 1 \in Slot
      /\ dir.data + Length \in 0..DataUnits
      /\ \A i \in 1..(dir.next - 1) : i \in Entry
  BY Indices DEF DirTyped, Entry, Slot
<1>2. new \in MemObject /\ new.status = "USED"
  BY <1>1 DEF MemObject, Status
<1>3. objects \in [Entry -> MemObject] /\ objects[dir.next] = new
      /\ \A i \in Entry : i # dir.next => objects[i] = dir.objects[i]
  <2> HIDE DEF new
  <2> QED BY <1>1, <1>2
<1>4. /\ grown.objects = objects /\ grown.next = dir.next + 1 /\ grown.data = dir.data + Length
      /\ grown = [objects |-> objects, next |-> dir.next + 1, data |-> dir.data + Length,
                  recEntries |-> dir.recEntries, recData |-> dir.recData]
  <2> HIDE DEF objects
  <2>1. dir = [objects |-> dir.objects, next |-> dir.next, data |-> dir.data,
               recEntries |-> dir.recEntries, recData |-> dir.recData]
    BY DEF DirTyped
  <2>3. PICK o, n, d, e, r :
          dir = [objects |-> o, next |-> n, data |-> d, recEntries |-> e, recData |-> r]
    BY <2>1
  <2>4. PICK x, y, z : x = objects /\ y = dir.next + 1 /\ z = dir.data + Length
    OBVIOUS
  <2>5. dir.recEntries = e /\ dir.recData = r
    BY <2>3
  <2>6. PICK d1 : d1 = [dir EXCEPT !.objects = x]
    OBVIOUS
  <2>7. PICK d2 : d2 = [d1 EXCEPT !.next = y]
    OBVIOUS
  <2>8. d1 = [objects |-> x, next |-> n, data |-> d, recEntries |-> e, recData |-> r]
    BY <2>3, <2>6
  <2>9. d2 = [objects |-> x, next |-> y, data |-> d, recEntries |-> e, recData |-> r]
    BY <2>7, <2>8
  <2>10. [d2 EXCEPT !.data = z] =
           [objects |-> x, next |-> y, data |-> z, recEntries |-> e, recData |-> r]
    BY <2>9
  <2>11. grown = [[[dir EXCEPT !.objects = objects] EXCEPT !.next = dir.next + 1]
                  EXCEPT !.data = dir.data + Length]
    OBVIOUS
  <2> HIDE DEF grown
  <2>12. grown = [d2 EXCEPT !.data = z]
    BY <2>4, <2>6, <2>7, <2>11, Zenon
  <2>2. grown = [objects |-> objects, next |-> dir.next + 1, data |-> dir.data + Length,
                 recEntries |-> dir.recEntries, recData |-> dir.recData]
    BY <2>4, <2>5, <2>10, <2>12, Zenon
  <2> HIDE DEF grown
  <2> QED BY <2>2
<1>5. CASE old = {}
  <2>1. a = grown
    BY <1>5 DEF Appended
  <2> HIDE DEF objects, grown, new, old
  <2>2. a \in [objects: [Entry -> MemObject], next: Slot, data: 0..DataUnits,
               recEntries: {a.recEntries}, recData: {a.recData}]
    BY <1>1, <1>3, <1>4, <2>1
  <2>3. a.objects = objects /\ a.next = dir.next + 1 /\ a.data = dir.data + Length
    BY <1>4, <2>1
  <2> QED BY <1>3, <1>5, <2>2, <2>3 DEF old, new
<1>6. CASE old # {}
  <2>1. one \in old
    <3>1. old \in SUBSET Nat
      BY <1>1 DEF Find
    <3> HIDE DEF old
    <3> QED BY <1>6, <3>1, MinMeans
  <2>2. one \in Entry /\ one # dir.next
    <3>1. old \subseteq 1..(dir.next - 1)
      BY DEF Find
    <3> HIDE DEF old, one
    <3> QED BY <1>1, <2>1, <3>1
  <2>3. a = [grown EXCEPT !.objects[one].status = "DATA_BAD", !.recEntries = @ + 1,
                          !.recData = @ + dir.objects[one].count]
    BY <1>6 DEF Appended
  <2> HIDE DEF objects, grown, new, old, one
  <2>4. /\ a.objects = [objects EXCEPT ![one].status = "DATA_BAD"]
        /\ a.next = dir.next + 1 /\ a.data = dir.data + Length
        /\ a = [objects |-> a.objects, next |-> a.next, data |-> a.data,
                recEntries |-> a.recEntries, recData |-> a.recData]
    BY <1>4, <2>3
  <2>5. [objects[one] EXCEPT !.status = "DATA_BAD"] \in MemObject
    BY <1>3, <2>2 DEF MemObject, Status
  <2>6. /\ a.objects \in [Entry -> MemObject]
        /\ a.objects[one].status = "DATA_BAD"
        /\ \A i \in Entry : i # one => a.objects[i] = objects[i]
    BY <1>3, <2>2, <2>4, <2>5 DEF MemObject
  <2> QED BY <1>1, <1>3, <2>1, <2>2, <2>4, <2>6 DEF old, new
<1> QED BY <1>5, <1>6

\* After AddObject the directory describes the partition with the new entry.
LEMMA DirAppended ==
  ASSUME HeaderInv, FlashInv, pc = "obj_count", op.kind = "add", Ready, Write, dir' = Appended,
         active' = active
  PROVE  DirInv' /\ DirTyped'
<1>1. /\ Running /\ ~dirBad /\ active \in Part /\ Sound(active)
      /\ Target.part = active /\ Target.entry = dir.next /\ Target.start = dir.data
      /\ dir.next \in Entry /\ dir.data \in Nat /\ Target.meta \in Meta /\ Length \in Nat
      /\ dir.data + Length <= DataUnits /\ DirTyped /\ DirInv /\ FlashTypeOK
  BY TargetFacts, TargetIs DEF ObjPc, FlashInv, TargetInv
<1>2. /\ obj' = [obj EXCEPT ![active][dir.next] = Words(pc)]
  BY <1>1, ObjWrite DEF ObjPc
<1>3. Words(pc) = [epoch |-> Programmed, meta |-> Target.meta, start |-> dir.data, count |-> Length]
  BY <1>1 DEF Words
<1>4. obj'[active][dir.next] = Words(pc) /\ \A i \in Entry : i # dir.next => obj'[active][i] = obj[active][i]
  BY <1>1, <1>2 DEF FlashTypeOK
<1> DEFINE a == dir'
<1>5. /\ a \in [objects: [Entry -> MemObject], next: Slot, data: 0..DataUnits,
                   recEntries: {a.recEntries}, recData: {a.recData}]
      /\ a.next = dir.next + 1 /\ a.data = dir.data + Length
      /\ a.objects[dir.next] = [status |-> "USED", meta |-> Target.meta, start |-> dir.data,
                                count |-> Length]
      /\ \A i \in Entry : i # dir.next =>
              \/ a.objects[i] = dir.objects[i]
              \/ i \in Find(dir, op.id) /\ a.objects[i].status = "DATA_BAD"
  BY <1>1, AppendedIs
<1>6. DirTyped'
  BY <1>5 DEF DirTyped
<1> HIDE DEF a
<1>7. /\ dir.next \in Nat /\ \A i \in 1..dir.next : i = dir.next \/ i \in 1..(dir.next - 1)
      /\ \A i \in 1..(dir.next - 1) : i \in Entry /\ i # dir.next
      /\ a.next - 1 = dir.next /\ \A i \in Entry : i \in Nat
  BY <1>1, <1>5, Indices
<1>8. /\ Words(pc).epoch /\ Words(pc).meta = Target.meta /\ Words(pc).start = dir.data
      /\ Words(pc).count = Length
  BY <1>3 DEF Programmed
<1>9. \A i \in 1..(a.next - 1) : obj'[active][i].epoch
  BY <1>1, <1>4, <1>7, <1>8 DEF DirInv
<1>10. \A i \in Entry : i > a.next => obj'[active][i] = BlankObj
  BY <1>1, <1>4, <1>5, <1>7 DEF DirInv
<1>11. \A i \in Entry : a.objects[i].status = "USED" =>
         /\ i < a.next
         /\ Whole(active, i)'
         /\ a.objects[i] = [status |-> "USED", meta |-> obj'[active][i].meta,
                            start |-> obj'[active][i].start, count |-> obj'[active][i].count]
  <2> SUFFICES ASSUME NEW i \in Entry, a.objects[i].status = "USED"
               PROVE  /\ i < a.next
                      /\ obj'[active][i].count # Blank
                      /\ a.objects[i] = [status |-> "USED", meta |-> obj'[active][i].meta,
                              start |-> obj'[active][i].start, count |-> obj'[active][i].count]
    BY <1>1 DEF Whole
  <2>1. CASE i = dir.next
    BY <1>1, <1>4, <1>5, <1>7, <1>8, <2>1, WordAssumption
  <2>2. CASE i # dir.next
    <3>1. a.objects[i] = dir.objects[i]
      BY <1>5, <2>2
    <3>2. /\ i < dir.next /\ Whole(active, i)
          /\ dir.objects[i] = [status |-> "USED", meta |-> obj[active][i].meta,
                               start |-> obj[active][i].start, count |-> obj[active][i].count]
      BY <1>1, <3>1 DEF DirInv
    <3> QED BY <1>4, <1>5, <1>7, <2>2, <3>1, <3>2 DEF Whole
  <2> QED BY <2>1, <2>2
<1>12. \A i \in 1..(a.next - 1) : Sized(active, i)' => End(active, i)' <= a.data
  <2> SUFFICES ASSUME NEW i \in 1..(a.next - 1), obj'[active][i].start # Blank
               PROVE  obj'[active][i].start + UnitsOf[obj'[active][i].meta.val] <= a.data
    BY DEF Sized, End
  <2>1. CASE i = dir.next
    BY <1>1, <1>4, <1>5, <1>8, <2>1 DEF Length
  <2>2. CASE i # dir.next
    <3>1. i \in 1..(dir.next - 1) /\ i \in Entry /\ obj'[active][i] = obj[active][i]
      BY <1>4, <1>7, <2>2
    <3>2. Sized(active, i) /\ End(active, i) <= dir.data
      BY <1>1, <3>1 DEF DirInv, Sized
    <3>3. End(active, i) \in Nat
      BY <1>1, <3>1, <3>2, EntryFacts
    <3> QED BY <1>1, <1>5, <3>1, <3>2, <3>3 DEF End
  <2> QED BY <2>1, <2>2
<1>13. DirInv'
  BY <1>9, <1>10, <1>11, <1>12 DEF DirInv, a, Whole, Sized, End
<1> QED BY <1>6, <1>13

(***************************************************************************)
(* What the next object is written from and to.                            *)
(***************************************************************************)
\* The next entry to copy is the first one to keep.
LEMMA NextSourceIs ==
  ASSUME NEW ids, NEW k \in Slot, NEW s, s = NextSource(ids, k)
  PROVE  /\ s \in Slot /\ k <= s
         /\ s # ObjectCount + 1 => /\ s \in Entry /\ dir.objects[s].status = "USED"
                                   /\ dir.objects[s].meta.id \notin ids
         /\ \A j \in Entry : k <= j /\ j < s => ~(/\ dir.objects[j].status = "USED"
                                                  /\ dir.objects[j].meta.id \notin ids)
<1> DEFINE kept == {j \in k..ObjectCount : /\ dir.objects[j].status = "USED"
                                           /\ dir.objects[j].meta.id \notin ids}
<1>1. ObjectCount \in Nat /\ k \in Nat /\ k >= 1 /\ k <= ObjectCount + 1
  BY Indices DEF Slot
<1>2. kept \union {ObjectCount + 1} \in SUBSET Nat
  BY <1>1
<1>3. s = Min(kept \union {ObjectCount + 1})
  BY DEF NextSource
<1>4. s \in kept \union {ObjectCount + 1} /\ \A x \in kept \union {ObjectCount + 1} : s <= x
  <2> HIDE DEF kept
  <2> QED BY <1>2, <1>3, MinMeans
<1>5. s \in Slot /\ k <= s
  BY <1>1, <1>4 DEF Slot
<1>6. s # ObjectCount + 1 => /\ s \in Entry /\ dir.objects[s].status = "USED"
                             /\ dir.objects[s].meta.id \notin ids
  BY <1>1, <1>4 DEF Entry
<1>7. ASSUME NEW j \in Entry, k <= j, j < s, dir.objects[j].status = "USED",
             dir.objects[j].meta.id \notin ids
      PROVE  FALSE
  <2>1. j \in kept
    BY <1>1, <1>7 DEF Entry
  <2>2. s <= j /\ s \in Nat /\ j \in Nat
    BY <1>1, <1>5, <1>4, <2>1, Indices DEF Slot
  <2> QED BY <1>7, <2>2
<1> QED BY <1>5, <1>6, <1>7

\* A USED entry of the directory, as it is on flash.
LEMMA UsedEntry ==
  ASSUME FlashTypeOK, DirInv, Running, ~dirBad, active \in Part, Sound(active), NEW i \in Entry,
         dir.objects[i].status = "USED"
  PROVE  /\ Whole(active, i) /\ Sized(active, i)
         /\ dir.objects[i].meta = obj[active][i].meta /\ dir.objects[i].meta \in Meta
         /\ dir.objects[i].start = obj[active][i].start /\ dir.objects[i].start \in Nat
         /\ dir.objects[i].count = obj[active][i].count
         /\ dir.objects[i].count = UnitsOf[dir.objects[i].meta.val]
         /\ UnitsOf[dir.objects[i].meta.val] \in Nat
         /\ End(active, i) = dir.objects[i].start + UnitsOf[dir.objects[i].meta.val]
         /\ End(active, i) <= DataUnits /\ i < dir.next
<1>1. /\ i < dir.next /\ Whole(active, i)
      /\ dir.objects[i] = [status |-> "USED", meta |-> obj[active][i].meta,
                           start |-> obj[active][i].start, count |-> obj[active][i].count]
  BY DEF DirInv
<1>2. /\ dir.objects[i].meta = obj[active][i].meta /\ dir.objects[i].start = obj[active][i].start
      /\ dir.objects[i].count = obj[active][i].count
  BY <1>1
<1> QED BY <1>1, <1>2, EntryFacts DEF End

\* AddObject has found the space.
LEMMA AddTarget ==
  ASSUME HeaderInv, FlashInv, NEW id \in Id, NEW v \in Val, AddObject(id, v)
  PROVE  TargetInv'
<1>1. /\ Running /\ ~dirBad /\ active \in Part /\ DirTyped /\ DirInv /\ FlashTypeOK
      /\ active' = active /\ dir' = dir /\ obj' = obj /\ dat' = dat /\ pc' = "obj_epoch"
      /\ op' = [kind |-> "add", id |-> id, val |-> v] /\ HasSpace(v) /\ pc = "idle"
  BY DEF AddObject, HeaderInv, HeaderTypeOK, ControlTypeOK, FlashInv, Running, InitPc, flash, ram
<1>2. Target' = [part |-> active, entry |-> dir.next, start |-> dir.data,
                 meta |-> [id |-> id, val |-> v]]
  BY <1>1 DEF Target
<1>0. PICK t : t = Target'
  OBVIOUS
<1>3. /\ t.part = active /\ t.entry = dir.next /\ t.start = dir.data
      /\ t.meta = [id |-> id, val |-> v] /\ t.meta.val = v
  BY <1>0, <1>2
<1>4. Length' = UnitsOf[v]
  BY <1>0, <1>3 DEF Length
<1>5. /\ dir.next \in Entry /\ dir.data \in Nat /\ dir.data + UnitsOf[v] <= DataUnits
  BY <1>1, Indices DEF HasSpace, DirTyped, Slot, Entry
<1>6. t.meta \in Meta
  BY <1>3 DEF Meta
<1>7. \A i \in 1..(t.entry - 1) :
         /\ obj'[t.part][i].epoch
         /\ Sized(t.part, i)' => End(t.part, i)' <= t.start
  BY <1>1, <1>3 DEF DirInv, Sized, End
<1>8. \A i \in Entry : i > t.entry => obj'[t.part][i] = BlankObj
  BY <1>1, <1>3 DEF DirInv
<1>9. op'.kind # "destroy"
  BY <1>1
<1> QED BY <1>0, <1>1, <1>3, <1>4, <1>5, <1>6, <1>7, <1>8, <1>9 DEF TargetInv, Sized, End

\* DestroyObjects goes on to the next entry to keep.
LEMMA CopyTarget ==
  ASSUME HeaderInv, FlashInv, Running, ~dirBad, op.kind = "destroy",
         op' = op, dir' = dir, active' = active,
         NEW s \in Entry, dir.objects[s].status = "USED",
         NEW e \in Nat, 1 <= e, e <= s, NEW d \in Nat, d <= dir.objects[s].start,
         cp' = [src |-> s, entry |-> e, data |-> d], pc' = "obj_epoch",
         \A i \in 1..(e - 1) :
           /\ obj'[Other(active)][i].epoch
           /\ obj'[Other(active)][i].start # Blank =>
                obj'[Other(active)][i].start + UnitsOf[obj'[Other(active)][i].meta.val] <= d,
         \A i \in Entry : i > e => obj'[Other(active)][i] = BlankObj
  PROVE  TargetInv'
<1>1. active \in Part /\ FlashTypeOK /\ DirInv /\ Sound(active)
  BY DEF HeaderInv, HeaderTypeOK, ControlTypeOK, FlashInv, SoundInv, ActiveUsed
<1>2. /\ dir.objects[s].meta \in Meta /\ UnitsOf[dir.objects[s].meta.val] \in Nat
      /\ dir.objects[s].start \in Nat
      /\ dir.objects[s].start + UnitsOf[dir.objects[s].meta.val] <= DataUnits
  BY <1>1, UsedEntry
<1>3. cp'.src = s /\ cp'.entry = e /\ cp'.data = d
  OBVIOUS
<1>4. Target' = [part |-> Other(active), entry |-> e, start |-> d, meta |-> dir.objects[s].meta]
  BY <1>3 DEF Target, Other
<1>0. PICK t : t = Target'
  OBVIOUS
<1>5. /\ t.part = Other(active) /\ t.entry = e /\ t.start = d /\ t.meta = dir.objects[s].meta
  BY <1>0, <1>4
<1>6. Length' = UnitsOf[dir.objects[s].meta.val]
  BY <1>0, <1>5 DEF Length
<1>7. e \in Entry /\ d + UnitsOf[dir.objects[s].meta.val] <= DataUnits
  BY <1>2, Indices DEF Entry
<1>8. \A i \in 1..(t.entry - 1) :
         /\ obj'[t.part][i].epoch
         /\ Sized(t.part, i)' => End(t.part, i)' <= t.start
  BY <1>5 DEF Sized, End
<1>9. \A i \in Entry : i > t.entry => obj'[t.part][i] = BlankObj
  BY <1>5
<1>10. /\ cp'.src \in Entry /\ dir'.objects[cp'.src].status = "USED"
       /\ cp'.entry <= cp'.src /\ cp'.data <= dir'.objects[cp'.src].start
  BY <1>3
<1> QED BY <1>0, <1>2, <1>5, <1>6, <1>7, <1>8, <1>9, <1>10 DEF TargetInv, Sized, End

\* The next word of the same object.
LEMMA WordTarget ==
  ASSUME HeaderInv, FlashInv, ObjStep
  PROVE  TargetInv'
<1>1. /\ pc \in ObjPc /\ pc # "obj_count" /\ Ready /\ Write
      /\ active' = active /\ dir' = dir /\ cp' = cp /\ op' = op
      /\ pc' = CASE pc = "obj_epoch" -> "obj_meta"
                 [] pc = "obj_meta" -> "obj_start"
                 [] pc = "obj_start" -> "obj_data"
                 [] pc = "obj_data" -> "obj_count"
  BY DEF ObjStep, ram
<1>2. Target' = Target
  BY <1>1 DEF Target, Other
<1>3. PICK p0 \in Part, e0 \in Entry : p0 = Target.part /\ e0 = Target.entry
  BY <1>1, TargetFacts
<1>4. Length' = Length /\ p0 = Target'.part /\ e0 = Target'.entry
  BY <1>2, <1>3 DEF Length
<1>5. TargetInv /\ FlashTypeOK
  BY DEF FlashInv
<1>6. /\ \A i \in Entry : i # e0 => obj'[p0][i] = obj[p0][i]
      /\ obj'[p0][e0] = Written'
  <2>1. CASE pc = "obj_data"
    <3>1. ProgramData(Length) /\ Length \in Nat
      BY <1>1, <2>1, TargetFacts DEF Write
    <3>2. obj' = obj
      BY <1>1, <2>1, <3>1, DataWrite
    <3>3. obj[p0][e0] = Written
      BY <1>1, <1>3, <1>5, <2>1 DEF TargetInv, TargetObj
    <3>4. pc' = "obj_count"
      BY <1>1, <2>1
    <3>5. Written = [epoch |-> Programmed, meta |-> Target.meta, start |-> Target.start,
                     count |-> Blank]
      BY <2>1, WrittenAt
    <3>6. (pc \in {"obj_data", "obj_count"} =>
             Written = [epoch |-> Programmed, meta |-> Target.meta, start |-> Target.start,
                        count |-> Blank])'
      BY WrittenAt, PTL
    <3>7. Written' = [epoch |-> Programmed, meta |-> Target'.meta, start |-> Target'.start,
                      count |-> Blank]
      BY <3>4, <3>6
    <3> QED BY <1>2, <3>2, <3>3, <3>5, <3>7
  <2>2. CASE pc # "obj_data"
    <3>1. obj' = [obj EXCEPT ![p0][e0] = Words(pc)]
      BY <1>1, <1>3, <2>2, ObjWrite
    <3>2. Words(pc) = Written'
      <4>1. (/\ pc = "obj_meta" => Written = [epoch |-> Programmed, meta |-> Blank,
                                              start |-> Blank, count |-> Blank]
             /\ pc = "obj_start" => Written = [epoch |-> Programmed, meta |-> Target.meta,
                                               start |-> Blank, count |-> Blank]
             /\ pc \in {"obj_data", "obj_count"} =>
                  Written = [epoch |-> Programmed, meta |-> Target.meta, start |-> Target.start,
                             count |-> Blank])'
        BY WrittenAt, PTL
      <4>2. CASE pc = "obj_epoch"
        BY <1>1, <4>1, <4>2 DEF Words
      <4>3. CASE pc = "obj_meta"
        BY <1>1, <1>2, <4>1, <4>3 DEF Words
      <4>4. CASE pc = "obj_start"
        BY <1>1, <1>2, <4>1, <4>4 DEF Words
      <4> QED BY <1>1, <2>2, <4>2, <4>3, <4>4 DEF ObjPc
    <3> QED BY <1>5, <3>1, <3>2 DEF FlashTypeOK
  <2> QED BY <2>1, <2>2
<1>7. TargetObj' = Written'
  BY <1>4, <1>6 DEF TargetObj
<1>8. pc' = "obj_count" => \A u \in DataUnit :
          Target.start <= u /\ u < Target.start + Length => dat'[p0][u] = Target.meta.val
  <2> SUFFICES ASSUME pc = "obj_data"
               PROVE  \A u \in DataUnit :
                        Target.start <= u /\ u < Target.start + Length => dat'[p0][u] = Target.meta.val
    BY <1>1 DEF ObjPc
  <2>1. ProgramData(Length) /\ Length \in Nat
    BY <1>1, TargetFacts DEF Write
  <2> QED BY <1>1, <1>3, <2>1, DataWrite
<1>9. /\ Target.entry \in Entry /\ Target.start \in Nat /\ Target.meta \in Meta
      /\ Target.start + Length <= DataUnits
      /\ \A i \in 1..(e0 - 1) : obj[p0][i].epoch /\ (Sized(p0, i) => End(p0, i) <= Target.start)
      /\ \A i \in Entry : i > e0 => obj[p0][i] = BlankObj
      /\ op.kind = "destroy" =>
           /\ cp.src \in Entry /\ dir.objects[cp.src].status = "USED"
           /\ cp.entry <= cp.src
           /\ cp.data <= dir.objects[cp.src].start
  BY <1>1, <1>3, <1>5 DEF TargetInv
<1>10. \A i \in 1..(e0 - 1) :
         obj'[p0][i].epoch /\ (Sized(p0, i)' => End(p0, i)' <= Target.start)
  BY <1>6, <1>9, Indices DEF Sized, End
<1>11. \A i \in Entry : i > e0 => obj'[p0][i] = BlankObj
  BY <1>6, <1>9, Indices
<1> QED BY <1>1, <1>2, <1>4, <1>7, <1>8, <1>9, <1>10, <1>11 DEF TargetInv, Sized, End

\* The copy begins on an erased partition ...
LEMMA CopyBegins ==
  ASSUME HeaderInv, FlashInv, DstStep, pc' = "obj_epoch"
  PROVE  TargetInv'
<1>1. /\ pc = "dst_start" /\ Write
      /\ active' = active /\ dir' = dir /\ op' = op
      /\ StartCopy([src |-> NextSource(op.ids, 1), entry |-> 1, data |-> 0])
  BY DEF DstStep, ram
<1>2. /\ active \in Part /\ Other(active) \in Part /\ op.kind = "destroy" /\ Running /\ ~dirBad
      /\ FlashTypeOK /\ DirInv /\ Sound(active) /\ Empty(Other(active))
  BY <1>1, PartFacts, KindFacts
     DEF HeaderInv, HeaderTypeOK, ControlTypeOK, OpProgress, DstPc, Running, InitPc,
     FlashInv, BadInv, SoundInv, ActiveUsed
<1>3. obj' = obj
  BY <1>1 DEF Write, ProgramHdrStart, ProgramHdr, ObjPc
<1>4. PICK s : s = NextSource(op.ids, 1)
  OBVIOUS
<1>5. cp' = [src |-> s, entry |-> 1, data |-> 0] /\ s <= ObjectCount
  BY <1>1, <1>4 DEF StartCopy
<1>6. 1 \in Slot
  BY Indices DEF Slot
<1>7. s \in Slot /\ 1 <= s /\ (s # ObjectCount + 1 =>
        s \in Entry /\ dir.objects[s].status = "USED")
  BY <1>4, <1>6, NextSourceIs
<1>8. s \in Entry /\ dir.objects[s].status = "USED"
  BY <1>5, <1>7, Indices DEF Slot
<1>9. 0 <= dir.objects[s].start
  BY <1>2, <1>8, UsedEntry
<1>10. \A i \in Entry : i > 1 => obj'[Other(active)][i] = BlankObj
  BY <1>2, <1>3 DEF Empty
<1>11. \A i \in 1..(1 - 1) : FALSE
  OBVIOUS
<1> QED BY <1>1, <1>2, <1>5, <1>7, <1>8, <1>9, <1>10, <1>11, CopyTarget

\* ... and goes on behind the object just written.
LEMMA CopyGoesOn ==
  ASSUME HeaderInv, FlashInv, ObjCount, op.kind # "add", pc' = "obj_epoch"
  PROVE  TargetInv'
<1>1. /\ pc = "obj_count" /\ Ready /\ Write
      /\ active' = active /\ dir' = dir /\ op' = op
      /\ StartCopy([src |-> NextSource(op.ids, cp.src + 1),
                    entry |-> cp.entry + 1, data |-> cp.data + Length])
  BY DEF ObjCount
<1>2. /\ op.kind = "destroy" /\ Running /\ ~dirBad /\ active \in Part /\ Other(active) \in Part
      /\ Sound(active) /\ Length \in Nat
      /\ Target.part = Other(active) /\ Target.entry = cp.entry /\ Target.start = cp.data
      /\ Target.meta = dir.objects[cp.src].meta /\ cp.entry \in Entry /\ cp.data \in Nat
      /\ Target.meta \in Meta
  BY <1>1, TargetFacts, TargetIs, KindFacts, PartFacts DEF ObjPc
<1>3. /\ cp.src \in Entry /\ dir.objects[cp.src].status = "USED"
      /\ cp.entry <= cp.src /\ cp.data <= dir.objects[cp.src].start
      /\ \A i \in 1..(cp.entry - 1) :
           /\ obj[Other(active)][i].epoch
           /\ Sized(Other(active), i) => End(Other(active), i) <= cp.data
      /\ \A i \in Entry : i > cp.entry => obj[Other(active)][i] = BlankObj
      /\ FlashTypeOK /\ DirInv
  BY <1>1, <1>2 DEF FlashInv, TargetInv, ObjPc
<1>4. PICK s : s = NextSource(op.ids, cp.src + 1)
  OBVIOUS
<1>5. cp' = [src |-> s, entry |-> cp.entry + 1, data |-> cp.data + Length] /\ s <= ObjectCount
  BY <1>1, <1>4 DEF StartCopy
<1>6. cp.src + 1 \in Slot
  BY <1>3, Indices DEF Slot
<1>7. s \in Slot /\ cp.src + 1 <= s /\ (s # ObjectCount + 1 =>
        s \in Entry /\ dir.objects[s].status = "USED")
  BY <1>4, <1>6, NextSourceIs
<1>8. s \in Entry /\ dir.objects[s].status = "USED" /\ cp.src < s /\ s \in Nat /\ cp.src \in Nat
      /\ cp.entry \in Nat /\ cp.src >= 1
  BY <1>2, <1>3, <1>5, <1>7, Indices DEF Slot
<1>9. cp.data + Length <= dir.objects[s].start
  <2>1. /\ Sized(active, s) /\ Sized(active, cp.src)
        /\ End(active, cp.src) = dir.objects[cp.src].start + Length
        /\ dir.objects[s].start = obj[active][s].start
        /\ dir.objects[s].start \in Nat /\ dir.objects[cp.src].start \in Nat
    BY <1>2, <1>3, <1>8, UsedEntry DEF Length
  <2>2. cp.src \in 1..(s - 1)
    BY <1>8
  <2>3. End(active, cp.src) <= obj[active][s].start
    BY <1>2, <1>8, <2>1, <2>2 DEF Sound, Reserved
  <2> QED BY <1>2, <1>3, <2>1, <2>3
<1>10. obj' = [obj EXCEPT ![Other(active)][cp.entry] = Words(pc)]
  BY <1>1, <1>2, ObjWrite DEF ObjPc
<1>11. /\ Words(pc).epoch /\ Words(pc).start = cp.data /\ Words(pc).meta = Target.meta
  BY <1>1, <1>2 DEF Words, Programmed
<1>12. /\ obj'[Other(active)][cp.entry] = Words(pc)
       /\ \A i \in Entry : i # cp.entry => obj'[Other(active)][i] = obj[Other(active)][i]
  BY <1>2, <1>3, <1>10 DEF FlashTypeOK
<1>13. \A i \in 1..((cp.entry + 1) - 1) :
           /\ obj'[Other(active)][i].epoch
           /\ obj'[Other(active)][i].start # Blank =>
                obj'[Other(active)][i].start + UnitsOf[obj'[Other(active)][i].meta.val]
                  <= cp.data + Length
  <2> SUFFICES ASSUME NEW i \in 1..((cp.entry + 1) - 1)
               PROVE  /\ obj'[Other(active)][i].epoch
                      /\ obj'[Other(active)][i].start # Blank =>
                           obj'[Other(active)][i].start + UnitsOf[obj'[Other(active)][i].meta.val]
                             <= cp.data + Length
    OBVIOUS
  <2>1. CASE i = cp.entry
    BY <1>2, <1>11, <1>12, <2>1 DEF Length
  <2>2. CASE i # cp.entry
    <3>1. i \in 1..(cp.entry - 1) /\ i \in Entry /\ obj'[Other(active)][i] = obj[Other(active)][i]
      BY <1>2, <1>8, <1>12, <2>2, Indices
    <3>2. Sized(Other(active), i) => End(Other(active), i) \in Nat
      BY <1>1, <1>2, <1>3, <3>1, EntryFacts, TargetFacts DEF ObjPc
    <3> QED BY <1>2, <1>3, <3>1, <3>2 DEF Sized, End
  <2> QED BY <2>1, <2>2
<1>14. \A i \in Entry : i > cp.entry + 1 => obj'[Other(active)][i] = BlankObj
  <2>1. \A i \in Entry : i > cp.entry + 1 => i > cp.entry /\ i # cp.entry
    BY <1>8, Indices
  <2> QED BY <1>3, <1>12, <2>1
<1>15. cp.entry + 1 \in Nat /\ 1 <= cp.entry + 1 /\ cp.entry + 1 <= s /\ cp.data + Length \in Nat
  BY <1>2, <1>3, <1>8
<1>16. pc' = "obj_epoch"
  OBVIOUS
<1> HIDE DEF TargetInv
<1> QED BY <1>1, <1>2, <1>5, <1>8, <1>9, <1>13, <1>14, <1>15, CopyTarget

(***************************************************************************)
(* The steps.                                                              *)
(***************************************************************************)
\* Erases always go ahead.
LEMMA EraseReady == pc \in ErasePc => Ready
BY DEF ErasePc, Ready, WritePc, Pc, InitPc, DstPc

\* What a step can do to the flash.
LEMMA Flashes ==
  ASSUME Next
  PROVE  \/ Ready /\ Write
         \/ pc \in WritePc /\ Ready /\ PartialWrite
         \/ pc \in ErasePc /\ PartialWrite
         \/ UNCHANGED flash
<1>1. CASE SrcErase
  BY <1>1, EraseReady DEF SrcErase, ErasePc
<1>2. CASE FlashError
  BY <1>2, EraseReady DEF FlashError
<1>3. CASE Reset
  BY <1>3 DEF Reset
<1>4. CASE InitStep \/ DstStep \/ ObjStep \/ ObjCount \/ DstCount
  BY <1>4 DEF InitStep, DstStep, ObjStep, ObjCount, DstCount
<1>5. CASE InitFlash \/ DstReread \/ DstRereadError \/ RefuseBad
  BY <1>5 DEF InitFlash, DstReread, DstRereadError, RefuseBad, Return
<1>6. CASE \/ \E id \in Id, v \in Val : AddObject(id, v)
           \/ \E v \in Val : AddNoSpace(v)
           \/ \E ids \in SUBSET Id : DestroyObjects(ids) \/ DestroyNothing(ids)
  BY <1>6 DEF AddObject, AddNoSpace, DestroyObjects, DestroyNothing, Return
<1> QED BY <1>1, <1>2, <1>3, <1>4, <1>5, <1>6 DEF Next

\* Which steps enter a format, a copy or the writing of an object.
LEMMA Enters ==
  ASSUME HeaderInv, Next
  PROVE  /\ pc' \in InitPc \ {"init_erase"} => InitStep
         /\ pc' \in {"dst_epoch", "dst_start"} => DstStep
         /\ pc' \in ObjPc \union {"dst_count"} =>
              \/ DstStep /\ pc = "dst_start"
              \/ ObjStep
              \/ ObjCount /\ op.kind # "add"
              \/ pc' = "obj_epoch" /\ \E id \in Id, v \in Val : AddObject(id, v)
<1>1. /\ "idle" \notin InitPc \union ObjPc \union {"dst_count", "dst_epoch", "dst_start"}
      /\ "off" \notin InitPc \union ObjPc \union {"dst_count", "dst_epoch", "dst_start"}
      /\ "src_erase" \notin InitPc \union ObjPc \union {"dst_count", "dst_epoch", "dst_start"}
      /\ "dst_reread" \notin InitPc \union ObjPc \union {"dst_count", "dst_epoch", "dst_start"}
      /\ "dst_erase" \notin InitPc \union ObjPc \union {"dst_count", "dst_epoch", "dst_start"}
      /\ "obj_epoch" \notin InitPc \union {"dst_count", "dst_epoch", "dst_start"}
      /\ "dst_count" \notin InitPc \union {"dst_epoch", "dst_start"}
      /\ "init_erase" \notin ObjPc \union {"dst_count", "dst_epoch", "dst_start"}
      /\ \A x \in ObjPc : x \notin InitPc \union {"dst_count", "dst_epoch", "dst_start"}
      /\ \A x \in {"dst_epoch", "dst_start"} : x \notin InitPc \union {"dst_count"}
      /\ \A x \in InitPc : x \notin ObjPc \union {"dst_count"}
  BY DEF InitPc, ObjPc
<1>2. CASE InitFlash
  BY <1>1, <1>2 DEF InitFlash
<1>3. CASE InitStep
  <2>1. pc' \in {"init_epoch", "init_start", "init_count", "idle"}
    BY <1>3 DEF InitStep, InitPc
  <2> QED BY <1>3, <2>1 DEF ObjPc
<1>4. CASE \E id \in Id, v \in Val : AddObject(id, v)
  BY <1>1, <1>4 DEF AddObject
<1>5. CASE \/ \E v \in Val : AddNoSpace(v)
           \/ \E ids \in SUBSET Id : DestroyObjects(ids) \/ DestroyNothing(ids)
           \/ RefuseBad
  BY <1>1, <1>5 DEF AddNoSpace, DestroyObjects, DestroyNothing, RefuseBad, Return
<1>6. CASE DstStep
  <2>1. CASE pc = "dst_start"
    <3>1. pc' \in {"obj_epoch", "dst_count"}
      BY <1>6, <2>1 DEF DstStep, StartCopy
    <3> QED BY <1>1, <1>6, <2>1, <3>1
  <2>2. CASE pc # "dst_start"
    <3>1. pc' \in {"dst_epoch", "dst_start"}
      BY <1>6, <2>2 DEF DstStep
    <3> QED BY <1>1, <1>6, <3>1 DEF ObjPc
  <2> QED BY <2>1, <2>2
<1>7. CASE ObjStep
  <2>1. pc' \in ObjPc
    BY <1>7 DEF ObjStep, ObjPc
  <2> QED BY <1>1, <1>7, <2>1
<1>8. CASE ObjCount
  <2>1. \/ pc' = "idle"
        \/ op.kind # "add" /\ pc' \in {"obj_epoch", "dst_count"}
    BY <1>8 DEF ObjCount, Finish, StartCopy
  <2> QED BY <1>1, <1>8, <2>1
<1>9. CASE DstCount \/ DstReread \/ DstRereadError \/ SrcErase \/ FlashError \/ Reset
  <2>1. pc' \in {"dst_reread", "src_erase", "idle", "off"}
    BY <1>9 DEF DstCount, DstReread, DstRereadError, SrcErase, FlashError, Reset, Finish
  <2> QED BY <1>1, <2>1
<1> QED BY <1>2, <1>3, <1>4, <1>5, <1>6, <1>7, <1>8, <1>9 DEF Next

\* Every partition that counts stays sound.
LEMMA SoundStep ==
  ASSUME HeaderInv, HeaderInv', FlashInv, Next
  PROVE  FlashTypeOK' /\ SoundInv'
<1>1. FlashTypeOK' /\ \A p \in Part : Sound(p) => Sound(p)'
  BY Flashes, FlashStep DEF HeaderInv, HeaderTypeOK
<1>2. active \in Part /\ Other(active) \in Part /\ 0 \in Part /\ FlashTypeOK
  BY PartFacts DEF HeaderInv, HeaderTypeOK, ControlTypeOK, FlashInv
<1>3. ASSUME NEW p \in Part, HdrStatus(p)' = "USED"
      PROVE  Sound(p)'
  <2>1. \/ HdrStatus(p) = "USED"
        \/ pc = "init_count" /\ p = active
        \/ pc = "dst_count" /\ p = Other(active)
    BY <1>3, Flashes, UsedGrows
  <2>2. pc = "init_count" => active = 0 /\ Empty(0)
    BY DEF HeaderInv, FormatProgress, InitPc, FlashInv, SoundInv
  <2>3. pc = "dst_count" => Sound(Other(active))
    BY KindFacts DEF HeaderInv, OpProgress, DstPc, FlashInv, SoundInv
  <2>4. Sound(p)
    BY <1>2, <2>1, <2>2, <2>3, EmptySound DEF FlashInv, SoundInv
  <2> QED BY <1>1, <2>4
<1>4. ASSUME pc' \in InitPc \ {"init_erase"}
      PROVE  Empty(0)'
  <2>1. InitStep
    BY <1>4, Enters
  <2>2. pc \in InitPc /\ Write /\ active = 0 /\ pc # "init_count"
    BY <1>4, <2>1 DEF InitStep, InitPc, HeaderInv, FormatProgress
  <2>3. CASE pc = "init_erase"
    <3>1. Erase(0, Areas)
      BY <2>2, <2>3 DEF Write, ObjPc
    <3> QED BY <1>2, <3>1 DEF Erase, Areas, Empty, FlashTypeOK
  <2>4. CASE pc # "init_erase"
    <3>1. obj' = obj /\ dat' = dat
      BY <2>2, <2>4 DEF Write, InitPc, ObjPc, ProgramHdr, ProgramHdrEpoch, ProgramHdrStart
    <3>2. Empty(0)
      BY <2>2, <2>4 DEF FlashInv, SoundInv
    <3> QED BY <3>1, <3>2 DEF Empty
  <2> QED BY <2>3, <2>4
<1>5. ASSUME pc' \in {"dst_epoch", "dst_start"}
      PROVE  Empty(Other(active))'
  <2>1. DstStep /\ active' = active
    BY <1>5, Enters DEF DstStep, ram
  <2>2. pc \in {"dst_erase", "dst_epoch"} /\ Write
    BY <1>5, <2>1 DEF DstStep, StartCopy
  <2>3. PICK q \in Part : q = Other(active) /\ q = Other(active')
    BY <1>2, <2>1
  <2>4. CASE pc = "dst_erase"
    <3>1. Erase(q, Areas)
      BY <2>2, <2>3, <2>4 DEF Write, ObjPc
    <3>2. Empty(q)'
      BY <1>2, <3>1 DEF Erase, Areas, Empty, FlashTypeOK
    <3> QED BY <2>3, <3>2 DEF Empty, Other
  <2>5. CASE pc = "dst_epoch"
    <3>1. obj' = obj /\ dat' = dat
      BY <2>2, <2>5 DEF Write, ObjPc, ProgramHdr, ProgramHdrEpoch
    <3>2. Empty(Other(active))
      BY <2>5 DEF FlashInv, SoundInv
    <3> QED BY <2>1, <3>1, <3>2 DEF Empty, Other
  <2> QED BY <2>2, <2>4, <2>5
<1>6. ASSUME pc' \in ObjPc \union {"dst_count"}, op'.kind = "destroy"
      PROVE  Sound(Other(active))'
  <2>1. ~\E id \in Id, v \in Val : AddObject(id, v)
    BY <1>6 DEF AddObject
  <2>2. /\ active' = active
        /\ \/ pc = "dst_start"
           \/ pc \in ObjPc /\ op.kind = "destroy"
    <3>1. CASE DstStep /\ pc = "dst_start"
      BY <3>1 DEF DstStep, ram
    <3>2. CASE ObjStep
      BY <1>6, <3>2 DEF ObjStep, ram
    <3>3. CASE ObjCount /\ op.kind # "add"
      BY <1>6, <3>3 DEF ObjCount, ObjPc
    <3> QED BY <1>6, <2>1, <3>1, <3>2, <3>3, Enters
  <2>3. Sound(Other(active))
    BY <1>2, <2>2, EmptySound DEF FlashInv, SoundInv
  <2>4. PICK q \in Part : q = Other(active) /\ q = Other(active')
    BY <1>2, <2>2
  <2>5. Sound(q)'
    BY <1>1, <2>3, <2>4
  <2> QED BY <2>4, <2>5 DEF Sound, InOrder, Reserved, Intact, Covered, Sized, Whole, End, Other
<1> QED BY <1>1, <1>3, <1>4, <1>5, <1>6 DEF SoundInv

\* While the store runs, the entries of the partition in use stay as they are,
\* but for the one that AddObject writes.
LEMMA EntriesKept ==
  ASSUME HeaderInv, FlashInv, Write \/ PartialWrite \/ UNCHANGED flash, Ready,
         pc \notin InitPc, pc # "off"
  PROVE  /\ ~(pc \in ObjPc /\ op.kind = "add") => obj'[active] = obj[active]
         /\ \A i \in Entry : i # dir.next => obj'[active][i] = obj[active][i]
<1>1. active \in Part /\ Other(active) \in Part /\ Other(active) # active /\ FlashTypeOK
  BY PartFacts DEF HeaderInv, HeaderTypeOK, ControlTypeOK, FlashInv
<1>2. ASSUME ~(pc \in ObjPc /\ op.kind = "add")
      PROVE  obj'[active] = obj[active]
  <2>1. CASE UNCHANGED flash
    BY <2>1 DEF flash
  <2>2. CASE pc \in ObjPc
    <3>1. Target.part = Other(active) /\ Target.part \in Part /\ Target.entry \in Entry
      BY <1>2, <2>2, TargetIs, TargetFacts
    <3>2. CASE pc = "obj_data"
      BY <2>1, <3>2 DEF Write, PartialWrite, ProgramData
    <3>3. CASE pc # "obj_data"
      BY <1>1, <2>1, <2>2, <3>1, <3>3, ObjWrite, ObjTorn DEF FlashTypeOK
    <3> QED BY <3>2, <3>3
  <2>3. CASE pc \notin ObjPc /\ ~UNCHANGED flash
    <3>1. \/ obj' = obj
          \/ \E areas : Erase(Other(active), areas)
      BY <2>3 DEF Write, PartialWrite, ObjPc, InitPc, ProgramHdr, ProgramHdrEpoch,
         ProgramHdrStart, ProgramHdrCount
    <3> QED BY <1>1, <3>1 DEF Erase, FlashTypeOK
  <2> QED BY <2>1, <2>2, <2>3
<1>3. ASSUME pc \in ObjPc, op.kind = "add"
      PROVE  \A i \in Entry : i # dir.next => obj'[active][i] = obj[active][i]
  <2>1. CASE UNCHANGED flash
    BY <2>1 DEF flash
  <2>2. Target.part = active /\ Target.entry = dir.next
    BY <1>3, TargetIs
  <2>3. CASE pc = "obj_data"
    BY <2>1, <2>3 DEF Write, PartialWrite, ProgramData
  <2>4. CASE pc # "obj_data"
    BY <1>1, <1>3, <2>1, <2>2, <2>4, ObjWrite, ObjTorn DEF FlashTypeOK
  <2> QED BY <2>1, <2>3, <2>4
<1> QED BY <1>2, <1>3

\* What a step does to the directory: nothing, and the partition it describes
\* changes at most in the first free entry; read it from a sound partition; add
\* the entry that was written; or forget it.
LEMMA DirMoves ==
  ASSUME HeaderInv, HeaderInv', FlashInv, Next
  PROVE  \/ /\ dir' = dir /\ active' = active /\ dirBad' = dirBad /\ Running /\ ~dirBad
            /\ \A i \in Entry : i # dir.next => obj'[active][i] = obj[active][i]
         \/ \E p \in Part : /\ Sound(p) /\ (HdrStatus(p) = "USED" \/ Empty(p))
                            /\ dir' = ReadDirectory(p) /\ obj' = obj /\ active' = p /\ ~dirBad'
         \/ /\ pc = "obj_count" /\ op.kind = "add" /\ Ready /\ Write /\ pc' = "idle"
            /\ dir' = Appended /\ active' = active /\ ~dirBad'
         \/ ~Running' /\ dir' \in {dir, EmptyDirectory} /\ ~dirBad'
         \/ dirBad' /\ pc' = "idle" /\ dir' \in {dir, EmptyDirectory}
<1>1. /\ active \in Part /\ Other(active) \in Part /\ Other(active) # active /\ BadInv
  BY PartFacts DEF HeaderInv, HeaderTypeOK, ControlTypeOK, FlashInv
<1>2. Running => Sound(active) /\ HdrStatus(active) = "USED"
  BY <1>1 DEF HeaderInv, ActiveUsed, FlashInv, SoundInv
<1>3. pc # "idle" => ~dirBad
  BY <1>1 DEF BadInv
<1>4. CASE InitFlash
  <2>1. /\ pc = "off" /\ dirBad' = dirBad /\ obj' = obj /\ hdr' = hdr /\ ~dirBad
    BY <1>3, <1>4 DEF InitFlash, flash
  <2>2. CASE pc' = "init_erase"
    BY <1>4, <2>1, <2>2 DEF InitFlash, Running, InitPc
  <2>3. CASE pc' # "init_erase"
    <3>1. PICK p : pc' = "idle" /\ active' = p /\ dir' = ReadDirectory(p)
      BY <1>4, <2>3 DEF InitFlash
    <3>2. p \in Part /\ HdrStatus(p)' = "USED"
      BY <3>1 DEF HeaderInv, HeaderTypeOK, ControlTypeOK, ActiveUsed, Running, InitPc
    <3>3. HdrStatus(p) = "USED"
      BY <2>1, <3>2 DEF HdrStatus
    <3>4. Sound(p)
      BY <3>2, <3>3 DEF FlashInv, SoundInv
    <3> QED BY <2>1, <3>1, <3>2, <3>3, <3>4
  <2> QED BY <2>2, <2>3
<1>5. CASE InitStep
  <2>1. /\ pc \in InitPc /\ active' = active /\ dirBad' = dirBad /\ ~dirBad /\ Write
    BY <1>3, <1>5 DEF InitStep, InitPc
  <2>2. CASE pc = "init_count"
    <3>1. dir' = ReadDirectory(active) /\ obj' = obj
      BY <1>5, <2>1, <2>2 DEF InitStep, Write, ProgramHdrCount, ProgramHdr, ObjPc
    <3>2. active = 0 /\ Sound(active) /\ Empty(active)
      BY <1>1, <2>2, EmptySound DEF HeaderInv, FormatProgress, FlashInv, SoundInv, InitPc
    <3> QED BY <1>1, <2>1, <3>1, <3>2
  <2>3. CASE pc # "init_count"
    <3>1. dir' = dir /\ pc' \in InitPc
      BY <1>5, <2>1, <2>3 DEF InitStep, InitPc
    <3> QED BY <2>1, <3>1 DEF Running
  <2> QED BY <2>2, <2>3
<1>6. CASE \/ \E id \in Id, v \in Val : AddObject(id, v)
           \/ \E ids \in SUBSET Id : DestroyObjects(ids)
  BY <1>6 DEF AddObject, DestroyObjects, flash, ram, Running, InitPc
<1>7. CASE \/ \E v \in Val : AddNoSpace(v)
           \/ \E ids \in SUBSET Id : DestroyNothing(ids)
           \/ RefuseBad
  <2>1. /\ pc = "idle" /\ pc' = pc /\ obj' = obj /\ active' = active /\ dir' = dir /\ dirBad' = dirBad
    BY <1>7 DEF AddNoSpace, DestroyNothing, RefuseBad, Return, flash, ram
  <2> QED BY <2>1 DEF Running, InitPc
<1>8. CASE DstStep \/ ObjStep \/ DstCount \/ SrcErase
  <2>1. /\ Write /\ Ready /\ pc \notin InitPc /\ pc # "off" /\ pc # "idle" /\ active' = active
        /\ dir' = dir /\ dirBad' = dirBad
    BY <1>8, EraseReady DEF DstStep, ObjStep, DstCount, SrcErase, ram, InitPc, ObjPc, ErasePc
  <2> QED BY <1>3, <2>1, EntriesKept DEF Running
<1>9. CASE ObjCount
  <2>1. /\ pc = "obj_count" /\ Write /\ Ready /\ active' = active /\ dirBad' = dirBad /\ ~dirBad
        /\ pc \notin InitPc /\ pc # "off"
    BY <1>3, <1>9 DEF ObjCount, InitPc
  <2>2. CASE op.kind = "add"
    BY <1>9, <2>1, <2>2 DEF ObjCount, Finish
  <2>3. CASE op.kind # "add"
    <3>1. dir' = dir
      BY <1>9, <2>3 DEF ObjCount
    <3> QED BY <2>1, <3>1, EntriesKept DEF Running
  <2> QED BY <2>2, <2>3
<1>10. CASE DstReread
  <2>1. /\ pc = "dst_reread" /\ dir' = ReadDirectory(Other(active)) /\ active' = Other(active)
        /\ obj' = obj /\ dirBad' = dirBad /\ ~dirBad
    BY <1>3, <1>10 DEF DstReread, flash
  <2>2. hdr[Other(active)] = Hdr(epoch + 1, TRUE, TRUE) /\ epoch + 1 # Blank
    BY <2>1, WordAssumption DEF HeaderInv, CopyProgress, HeaderTypeOK, ControlTypeOK
  <2>3. HdrStatus(Other(active)) = "USED"
    BY <1>1, <2>2, UsedMeans DEF Hdr
  <2>4. Sound(Other(active))
    BY <1>1, <2>3 DEF FlashInv, SoundInv
  <2> QED BY <1>1, <2>1, <2>3, <2>4
<1>11. CASE DstRereadError
  <2>1. pc = "dst_reread" /\ pc' = "idle" /\ active' = active /\ obj' = obj /\ ~dirBad /\ Running
    BY <1>3, <1>11 DEF DstRereadError, Finish, flash, Running, InitPc
  <2>2. CASE dir' = ReadDirectory(active) /\ UNCHANGED dirBad
    BY <1>1, <1>2, <2>1, <2>2
  <2>3. CASE dirBad' = TRUE /\ dir' = EmptyDirectory
    BY <2>1, <2>3
  <2> QED BY <1>11, <2>2, <2>3 DEF DstRereadError
<1>12. CASE FlashError
  <2>1. /\ Write \/ PartialWrite \/ UNCHANGED flash
        /\ ~Ready => UNCHANGED flash
        /\ active' = active /\ dir' = dir /\ dirBad' = dirBad /\ pc \in WritePc
    BY <1>12, EraseReady DEF FlashError, ram
  <2>2. pc # "off" /\ pc # "idle" /\ ~dirBad
    BY <1>3, <2>1 DEF WritePc
  <2>3. CASE pc \in InitPc
    <3>1. pc' = "off"
      BY <1>12, <2>3 DEF FlashError
    <3> QED BY <2>1, <2>2, <3>1 DEF Running
  <2>4. CASE pc \notin InitPc
    <3>1. \A i \in Entry : i # dir.next => obj'[active][i] = obj[active][i]
      <4>1. CASE Ready
        BY <2>1, <2>2, <2>4, <4>1, EntriesKept
      <4>2. CASE ~Ready
        BY <2>1, <4>2 DEF flash
      <4> QED BY <4>1, <4>2
    <3> QED BY <2>1, <2>2, <2>4, <3>1 DEF Running
  <2> QED BY <2>3, <2>4
<1>13. CASE Reset
  BY <1>13 DEF Reset, Running
<1> QED BY <1>4, <1>5, <1>6, <1>7, <1>8, <1>9, <1>10, <1>11, <1>12, <1>13 DEF Next

\* The empty directory is one.
LEMMA EmptyTyped ==
  ASSUME DirTyped, dir' \in {dir, EmptyDirectory}
  PROVE  DirTyped'
<1> PICK d : d = EmptyDirectory
  OBVIOUS
<1>1. d = [objects |-> [i \in Entry |-> NoObject], next |-> 1, data |-> 0,
           recEntries |-> 0, recData |-> 0]
  BY DEF EmptyDirectory
<1>2. NoObject \in MemObject
  BY DEF NoObject, MemObject, Status
<1>3. 1 \in Slot /\ 0 \in 0..DataUnits
  BY Indices DEF Slot
<1>4. d \in [objects: [Entry -> MemObject], next: Slot, data: 0..DataUnits,
             recEntries: {d.recEntries}, recData: {d.recData}]
  BY <1>1, <1>2, <1>3
<1> QED BY <1>4 DEF DirTyped

\* The directory stays one of the partition in use.
LEMMA DirStep ==
  ASSUME HeaderInv, HeaderInv', FlashInv, Next
  PROVE  DirInv' /\ DirTyped' /\ BadInv'
<1>1. FlashTypeOK /\ DirInv /\ DirTyped /\ BadInv
  BY DEF FlashInv
<1>2. CASE /\ dir' = dir /\ active' = active /\ dirBad' = dirBad /\ Running /\ ~dirBad
           /\ \A i \in Entry : i # dir.next => obj'[active][i] = obj[active][i]
  BY <1>1, <1>2, DirKept DEF BadInv
<1>3. CASE \E p \in Part : /\ Sound(p) /\ (HdrStatus(p) = "USED" \/ Empty(p))
                           /\ dir' = ReadDirectory(p) /\ obj' = obj /\ active' = p /\ ~dirBad'
  BY <1>1, <1>3, DirRead DEF BadInv
<1>4. CASE /\ pc = "obj_count" /\ op.kind = "add" /\ Ready /\ Write
           /\ dir' = Appended /\ active' = active /\ ~dirBad'
  BY <1>4, DirAppended DEF BadInv
<1>5. CASE ~Running' /\ dir' \in {dir, EmptyDirectory} /\ ~dirBad'
  BY <1>1, <1>5, EmptyTyped DEF DirInv, BadInv
<1>6. CASE dirBad' /\ pc' = "idle" /\ dir' \in {dir, EmptyDirectory}
  BY <1>1, <1>6, EmptyTyped DEF DirInv, BadInv
<1> QED BY <1>2, <1>3, <1>4, <1>5, <1>6, DirMoves

\* What is being written stays accounted for.
LEMMA TargetStep ==
  ASSUME HeaderInv, FlashInv, Next
  PROVE  TargetInv'
<1> SUFFICES ASSUME pc' \in ObjPc PROVE TargetInv'
  BY DEF TargetInv
<1>1. CASE DstStep /\ pc = "dst_start"
  <2>1. pc' = "obj_epoch"
    BY <1>1 DEF DstStep, StartCopy, ObjPc
  <2> QED BY <1>1, <2>1, CopyBegins
<1>2. CASE ObjStep
  BY <1>2, WordTarget
<1>3. CASE ObjCount /\ op.kind # "add"
  <2>1. pc' = "obj_epoch"
    BY <1>3 DEF ObjCount, StartCopy, ObjPc
  <2> QED BY <1>3, <2>1, CopyGoesOn
<1>4. CASE \E id \in Id, v \in Val : AddObject(id, v)
  BY <1>4, AddTarget
<1> QED BY <1>1, <1>2, <1>3, <1>4, Enters

\* The invariant of the flash is inductive ...
LEMMA FlashInit == Init => FlashInv
<1> SUFFICES ASSUME Init PROVE FlashInv
  OBVIOUS
<1>1. BlankObj \in EntryWords /\ BlankHdr \in HdrWords
  BY HdrTyping DEF BlankObj, EntryWords, Word
<1>2. FlashTypeOK
  BY <1>1 DEF Init, FlashTypeOK
<1>3. pc = "off" /\ dirBad = FALSE /\ dir = EmptyDirectory /\ hdr = [p \in Part |-> BlankHdr]
  BY DEF Init
<1>4. DirTyped
  <2>1. NoObject \in MemObject /\ 1 \in Slot /\ 0 \in 0..DataUnits
    BY Indices DEF NoObject, MemObject, Status, Slot
  <2> PICK d : d = EmptyDirectory
    OBVIOUS
  <2>2. d = [objects |-> [i \in Entry |-> NoObject], next |-> 1, data |-> 0,
             recEntries |-> 0, recData |-> 0]
    BY DEF EmptyDirectory
  <2>3. d \in [objects: [Entry -> MemObject], next: Slot, data: 0..DataUnits,
               recEntries: {d.recEntries}, recData: {d.recData}]
    BY <2>1, <2>2
  <2> QED BY <1>3, <2>3 DEF DirTyped
<1>5. \A p \in Part : HdrStatus(p) # "USED"
  BY <1>3, UsedMeans DEF BlankHdr, Hdr
<1>6. SoundInv /\ DirInv /\ BadInv /\ TargetInv
  BY <1>3, <1>5 DEF SoundInv, DirInv, BadInv, TargetInv, Running, InitPc, ObjPc
<1> QED BY <1>2, <1>4, <1>6 DEF FlashInv

\* ... and holds of every run: a partition that counts is sound, and the
\* directory in RAM describes the one in use.
THEOREM FlashIsSound ==
  ASSUME HeadersReadable
  PROVE  Spec => [](HeaderInv /\ FlashInv)
<1>1. Init => HeaderInv /\ FlashInv
  BY HeaderInit, FlashInit
<1>2. HeaderInv /\ FlashInv /\ [Next]_vars => HeaderInv' /\ FlashInv'
  <2> SUFFICES ASSUME HeaderInv, FlashInv, [Next]_vars PROVE HeaderInv' /\ FlashInv'
    OBVIOUS
  <2>1. HeaderInv'
    BY HeaderStep
  <2>2. CASE Next
    BY <2>1, <2>2, SoundStep, DirStep, TargetStep DEF FlashInv
  <2>3. CASE UNCHANGED vars
    <3>1. /\ hdr' = hdr /\ obj' = obj /\ dat' = dat /\ pc' = pc /\ active' = active
          /\ dir' = dir /\ dirBad' = dirBad /\ cp' = cp /\ op' = op
      BY <2>3 DEF vars
    <3>2. FlashTypeOK' /\ DirTyped' /\ BadInv'
      BY <3>1 DEF FlashInv, FlashTypeOK, DirTyped, BadInv
    <3>3. \A p : HdrStatus(p)' = HdrStatus(p) /\ Sound(p)' = Sound(p) /\ Empty(p)' = Empty(p)
      BY <3>1 DEF HdrStatus, Sound, InOrder, Reserved, Intact, Covered, Sized, Whole, End, Empty
    <3>4. Other(active)' = Other(active) /\ Target' = Target /\ Length' = Length
      BY <3>1 DEF Other, Target, Length
    <3>5. SoundInv'
      BY <3>1, <3>3, <3>4 DEF FlashInv, SoundInv
    <3>6. DirInv'
      BY <3>1 DEF FlashInv, DirInv, Running, Sized, Whole, End
    <3>7. TargetInv'
      BY <3>1, <3>4 DEF FlashInv, TargetInv, TargetObj, Written, Sized, End
    <3> QED BY <2>1, <3>2, <3>5, <3>6, <3>7 DEF FlashInv
  <2> QED BY <2>2, <2>3
<1> QED BY <1>1, <1>2, PTL DEF Spec

\* What AddObject takes for free space is erased (FreeSpaceIsErased): a unit
\* that is not blank is reserved by some entry, and every entry that reserves
\* anything ends below where the directory says that the free space begins.
THEOREM FreeSpaceErased ==
  ASSUME HeadersReadable
  PROVE  Spec => []FreeSpaceIsErased
<1>1. HeaderInv /\ FlashInv => FreeSpaceIsErased
  <2> SUFFICES ASSUME HeaderInv, FlashInv, pc = "idle", ~dirBad, NextEntryErased
               PROVE  /\ \A i \in dir.next..ObjectCount : obj[active][i] = BlankObj
                      /\ \A u \in dir.data..(DataUnits - 1) : dat[active][u] = Blank
    BY DEF FreeSpaceIsErased
  <2>1. /\ active \in Part /\ Sound(active) /\ FlashTypeOK /\ DirInv /\ Running
        /\ dir.next \in Slot /\ dir.data \in 0..DataUnits
    BY DEF HeaderInv, HeaderTypeOK, ControlTypeOK, ActiveUsed, FlashInv, SoundInv, Running, InitPc, DirTyped
  <2>2. ASSUME NEW i \in dir.next..ObjectCount
        PROVE  i \in Entry /\ obj[active][i] = BlankObj
    <3>1. i \in Entry /\ (i = dir.next \/ i > dir.next)
      BY <2>1, Indices DEF Slot, Entry
    <3> QED BY <2>1, <3>1, Indices DEF DirInv, NextEntryErased, Entry, Slot
  <2>3. ASSUME NEW u \in dir.data..(DataUnits - 1), dat[active][u] # Blank
        PROVE  FALSE
    <3>1. u \in DataUnit /\ u >= dir.data
      BY <2>1, <2>3, Indices DEF DataUnit
    <3>2. PICK i \in Entry : Sized(active, i) /\ u < End(active, i)
      BY <2>1, <2>3, <3>1 DEF Sound, Covered
    <3>3. i \notin dir.next..ObjectCount
      BY <2>2, <3>2 DEF Sized, BlankObj
    <3>4. i \in 1..(dir.next - 1)
      BY <2>1, <3>2, <3>3, Indices DEF Slot
    <3>5. End(active, i) <= dir.data /\ End(active, i) \in Nat
      BY <2>1, <3>2, <3>4, EntryFacts DEF DirInv
    <3> QED BY <2>1, <3>1, <3>2, <3>5, Indices
  <2> QED BY <2>2, <2>3
<1> QED BY <1>1, FlashIsSound, PTL

(***************************************************************************)
(* Sums over sets of entries.  The parser of the directory adds up what    *)
(* the entries reserve.  A fold is unique and adds up element by element   *)
(* in any order, because the least counterexample among the subsets would  *)
(* have a smaller one (SetInduction).                                      *)
(***************************************************************************)
\* The element that a fold takes next, and one step of a fold.
Pick(s) == CHOOSE x \in s : TRUE
Folded(w, f, s) == IF s = {} THEN 0 ELSE w[Pick(s)] + f[s \ {Pick(s)}]

\* f folds w over the subsets of S.
FoldsOver(w, f, S) == f = [s \in SUBSET S |-> Folded(w, f, s)]
FoldOf(w, S) == CHOOSE f : FoldsOver(w, f, S)
Total(w, S) == FoldOf(w, S)[S]

\* The element taken is one.
LEMMA PickIn == \A s : s # {} => Pick(s) \in s
BY DEF Pick

\* The sum of extents that the parser takes.
ExtentFolds(os, f, S) ==
  f = [s \in SUBSET S |-> IF s = {} THEN 0 ELSE Extent(os[Pick(s)]) + f[s \ {Pick(s)}]]

\* The sum that the parser takes of a set is the total of its extents.
LEMMA SumIs ==
  ASSUME NEW os, NEW w, NEW S, \A i \in S : w[i] = Extent(os[i])
  PROVE  MapThenSumSet(LAMBDA i : Extent(os[i]), S) = Total(w, S)
<1>1. MapThenSumSet(LAMBDA i : Extent(os[i]), S) = (CHOOSE f : ExtentFolds(os, f, S))[S]
  BY DEF MapThenSumSet, MapThenFoldSet, ExtentFolds, Pick
<1>2. ASSUME NEW f PROVE ExtentFolds(os, f, S) <=> FoldsOver(w, f, S)
  <2>1. \A s \in SUBSET S :
          (IF s = {} THEN 0 ELSE Extent(os[Pick(s)]) + f[s \ {Pick(s)}]) = Folded(w, f, s)
    BY PickIn DEF Folded
  <2>2. [s \in SUBSET S |-> IF s = {} THEN 0 ELSE Extent(os[Pick(s)]) + f[s \ {Pick(s)}]]
          = [s \in SUBSET S |-> Folded(w, f, s)]
    BY <2>1
  <2> QED BY <2>2 DEF ExtentFolds, FoldsOver
<1>3. (CHOOSE f : ExtentFolds(os, f, S)) = FoldOf(w, S)
  BY <1>2 DEF FoldOf
<1> QED BY <1>1, <1>3 DEF Total

\* A set of subsets of a finite set holds all of them, when it holds each one
\* whose parts short of one element it holds: there is no least one it does not.
LEMMA SetInduction ==
  ASSUME NEW S, IsFiniteSet(S), NEW G,
         \A s \in SUBSET S : (\A x \in s : s \ {x} \in G) => s \in G
  PROVE  SUBSET S \subseteq G
<1> DEFINE Bad == {s \in SUBSET S : s \notin G}
<1> DEFINE N == {Cardinality(s) : s \in Bad}
<1> SUFFICES ASSUME Bad # {} PROVE FALSE
  OBVIOUS
<1>1. \A s \in SUBSET S : IsFiniteSet(s) /\ Cardinality(s) \in Nat
  BY FS_Subset, FS_CardinalityType
<1>2. N \in SUBSET Nat /\ N # {}
  BY <1>1
<1>3. PICK n \in N : \A m \in N : n <= m
  <2> HIDE DEF N
  <2> QED BY <1>2, Smallest
<1>4. PICK s \in Bad : n = Cardinality(s)
  OBVIOUS
<1>5. ASSUME NEW x \in s PROVE s \ {x} \in G
  <2>1. s \in SUBSET S /\ s \ {x} \in SUBSET S
    OBVIOUS
  <2>2. Cardinality(s \ {x}) = Cardinality(s) - 1
    BY <1>1, <2>1, FS_RemoveElement
  <2>3. Cardinality(s \ {x}) \in Nat /\ Cardinality(s) \in Nat
    BY <1>1, <2>1
  <2>4. Cardinality(s \ {x}) \notin N
    <3> HIDE DEF N
    <3> QED BY <1>3, <1>4, <2>2, <2>3
  <2>5. s \ {x} \notin Bad
    BY <2>4
  <2> QED BY <2>1, <2>5
<1> QED BY <1>5

\* Two folds agree where both are defined ...
LEMMA FoldsAgree ==
  ASSUME NEW w, NEW f, NEW g, NEW S, NEW T, FoldsOver(w, f, S), FoldsOver(w, g, T),
         NEW u \in SUBSET S, u \in SUBSET T, IsFiniteSet(u)
  PROVE  f[u] = g[u]
<1> DEFINE G == {s \in SUBSET u : f[s] = g[s]}
<1>1. ASSUME NEW s \in SUBSET u, \A x \in s : s \ {x} \in G
      PROVE  s \in G
  <2>1. f[s] = Folded(w, f, s) /\ g[s] = Folded(w, g, s)
    BY DEF FoldsOver
  <2>2. CASE s = {}
    BY <2>1, <2>2 DEF Folded
  <2>3. CASE s # {}
    <3>1. f[s \ {Pick(s)}] = g[s \ {Pick(s)}]
      BY <1>1, <2>3, PickIn
    <3> QED BY <2>1, <2>3, <3>1 DEF Folded
  <2> QED BY <2>2, <2>3
<1>2. SUBSET u \subseteq G
  <2> HIDE DEF G
  <2> QED BY <1>1, SetInduction
<1> QED BY <1>2

\* ... and over a finite set there is one.
LEMMA FoldExists ==
  ASSUME NEW w, NEW S, IsFiniteSet(S)
  PROVE  FoldsOver(w, FoldOf(w, S), S)
<1> DEFINE G == {s \in SUBSET S : FoldsOver(w, FoldOf(w, s), s)}
<1> SUFFICES ASSUME NEW s \in SUBSET S, \A x \in s : s \ {x} \in G
             PROVE  \E g : FoldsOver(w, g, s)
  <2>1. ASSUME NEW s \in SUBSET S, \E g : FoldsOver(w, g, s)
        PROVE  s \in G
    BY <2>1 DEF FoldOf
  <2>2. \A s \in SUBSET S : (\A x \in s : s \ {x} \in G) => s \in G
    BY <2>1
  <2>3. SUBSET S \subseteq G
    <3> HIDE DEF G
    <3> QED BY <2>2, SetInduction
  <2> QED BY <2>3
<1>1. \A t \in SUBSET S : IsFiniteSet(t)
  BY FS_Subset
<1>3. ASSUME NEW x \in s PROVE FoldsOver(w, FoldOf(w, s \ {x}), s \ {x})
  OBVIOUS
<1> DEFINE g == [t \in SUBSET s |-> IF t = {} THEN 0
                   ELSE w[Pick(t)] + FoldOf(w, s \ {Pick(t)})[t \ {Pick(t)}]]
<1>4. ASSUME NEW x \in s, NEW t \in SUBSET (s \ {x})
      PROVE  g[t] = FoldOf(w, s \ {x})[t]
  <2> DEFINE h == FoldOf(w, s \ {x})
  <2>1. FoldsOver(w, h, s \ {x})
    BY <1>3
  <2> HIDE DEF h
  <2>2. h[t] = Folded(w, h, t)
    BY <2>1 DEF FoldsOver
  <2>3. CASE t = {}
    BY <2>2, <2>3 DEF Folded, h
  <2>4. CASE t # {}
    <3>1. Pick(t) \in t /\ t \ {Pick(t)} \in SUBSET (s \ {x}) /\ Pick(t) \in s
          /\ t \ {Pick(t)} \in SUBSET (s \ {Pick(t)}) /\ IsFiniteSet(t \ {Pick(t)})
      BY <1>1, <2>4, PickIn, FS_Subset
    <3>2. FoldsOver(w, FoldOf(w, s \ {Pick(t)}), s \ {Pick(t)})
      BY <1>3, <3>1
    <3>3. FoldOf(w, s \ {Pick(t)})[t \ {Pick(t)}] = h[t \ {Pick(t)}]
      BY <2>1, <3>1, <3>2, FoldsAgree
    <3>4. g[t] = w[Pick(t)] + FoldOf(w, s \ {Pick(t)})[t \ {Pick(t)}]
      BY <2>4
    <3> HIDE DEF g
    <3> QED BY <2>2, <2>4, <3>3, <3>4 DEF Folded, h
  <2> QED BY <2>3, <2>4
<1>5. ASSUME NEW t \in SUBSET s PROVE g[t] = Folded(w, g, t)
  <2>1. CASE t = {}
    BY <2>1 DEF Folded
  <2>2. CASE t # {}
    <3>1. Pick(t) \in t /\ Pick(t) \in s /\ t \ {Pick(t)} \in SUBSET (s \ {Pick(t)})
      BY <2>2, PickIn
    <3>2. g[t] = w[Pick(t)] + FoldOf(w, s \ {Pick(t)})[t \ {Pick(t)}]
      BY <2>2
    <3>3. g[t \ {Pick(t)}] = FoldOf(w, s \ {Pick(t)})[t \ {Pick(t)}]
      BY <1>4, <3>1
    <3> HIDE DEF g
    <3> QED BY <2>2, <3>2, <3>3 DEF Folded
  <2> QED BY <2>1, <2>2
<1>6. FoldsOver(w, g, s)
  <2>1. g = [t \in SUBSET s |-> g[t]]
    OBVIOUS
  <2> HIDE DEF g
  <2>2. g = [t \in SUBSET s |-> Folded(w, g, t)]
    BY <1>5, <2>1
  <2> QED BY <2>2 DEF FoldsOver
<1> QED BY <1>6

\* A sum is taken element by element, in any order.
LEMMA TotalPick ==
  ASSUME NEW w, NEW S, IsFiniteSet(S)
  PROVE  /\ Total(w, {}) = 0
         /\ S # {} => Total(w, S) = w[Pick(S)] + Total(w, S \ {Pick(S)})
<1>0. ASSUME NEW T, IsFiniteSet(T)
      PROVE  FoldOf(w, T)[T] = Folded(w, FoldOf(w, T), T)
  <2> DEFINE f == FoldOf(w, T)
  <2>1. FoldsOver(w, f, T)
    BY <1>0, FoldExists
  <2> HIDE DEF f
  <2>2. f[T] = Folded(w, f, T)
    BY <2>1 DEF FoldsOver
  <2> QED BY <2>2 DEF f
<1>1. FoldOf(w, S)[S] = Folded(w, FoldOf(w, S), S)
  BY <1>0
<1>2. Total(w, {}) = 0
  <2>1. IsFiniteSet({})
    BY FS_EmptySet
  <2>2. FoldOf(w, {})[{}] = Folded(w, FoldOf(w, {}), {})
    BY <1>0, <2>1
  <2> QED BY <2>2 DEF Total, Folded
<1>3. ASSUME S # {}
      PROVE  FoldOf(w, S)[S \ {Pick(S)}] = FoldOf(w, S \ {Pick(S)})[S \ {Pick(S)}]
  <2> DEFINE T == S \ {Pick(S)}
  <2>1. T \in SUBSET S /\ T \in SUBSET T /\ IsFiniteSet(T)
    BY FS_Subset
  <2>2. FoldsOver(w, FoldOf(w, S), S) /\ FoldsOver(w, FoldOf(w, T), T)
    BY <2>1, FoldExists
  <2> HIDE DEF T
  <2>3. FoldOf(w, S)[T] = FoldOf(w, T)[T]
    BY <2>1, <2>2, FoldsAgree
  <2> QED BY <2>3 DEF T
<1> QED BY <1>1, <1>2, <1>3 DEF Total, Folded

\* A sum of numbers is a number.
LEMMA TotalNat ==
  ASSUME NEW w, NEW S, IsFiniteSet(S), \A i \in S : w[i] \in Nat
  PROVE  Total(w, S) \in Nat
<1> DEFINE G == {s \in SUBSET S : Total(w, s) \in Nat}
<1>1. ASSUME NEW s \in SUBSET S, \A x \in s : s \ {x} \in G
      PROVE  Total(w, s) \in Nat
  <2>1. IsFiniteSet(s)
    BY FS_Subset
  <2>2. CASE s = {}
    <3>1. Total(w, {}) = 0
      BY <2>1, TotalPick
    <3> QED BY <2>2, <3>1
  <2>3. CASE s # {}
    <3>1. Pick(s) \in s /\ w[Pick(s)] \in Nat
      BY <2>3, PickIn
    <3>2. Total(w, s \ {Pick(s)}) \in Nat
      BY <1>1, <3>1
    <3> QED BY <2>1, <2>3, <3>1, <3>2, TotalPick
  <2> QED BY <2>2, <2>3
<1>2. SUBSET S \subseteq G
  <2>1. \A s \in SUBSET S : (\A x \in s : s \ {x} \in G) => s \in G
    BY <1>1
  <2> HIDE DEF G
  <2> QED BY <2>1, SetInduction
<1> QED BY <1>2

\* Any element can be taken out first.
LEMMA TotalOut ==
  ASSUME NEW w, NEW S, IsFiniteSet(S), \A i \in S : w[i] \in Nat, NEW x \in S
  PROVE  Total(w, S) = w[x] + Total(w, S \ {x})
<1> DEFINE G == {s \in SUBSET S : \A y \in s : Total(w, s) = w[y] + Total(w, s \ {y})}
<1>1. ASSUME NEW s \in SUBSET S, \A y \in s : s \ {y} \in G, NEW y \in s
      PROVE  Total(w, s) = w[y] + Total(w, s \ {y})
  <2>1. IsFiniteSet(s) /\ Pick(s) \in s
    BY FS_Subset, PickIn
  <2>2. Total(w, s) = w[Pick(s)] + Total(w, s \ {Pick(s)})
    BY <2>1, TotalPick
  <2>3. CASE y = Pick(s)
    BY <2>2, <2>3
  <2>4. CASE y # Pick(s)
    <3> DEFINE z == Pick(s)
               r == (s \ {z}) \ {y}
    <3>1. (s \ {y}) \ {z} = r
      OBVIOUS
    <3>2. Total(w, s \ {z}) = w[y] + Total(w, r)
      BY <1>1, <2>1, <2>4
    <3>3. Total(w, s \ {y}) = w[z] + Total(w, (s \ {y}) \ {z})
      BY <1>1, <2>1, <2>4
    <3>4. IsFiniteSet(r) /\ \A i \in r : w[i] \in Nat
      BY <2>1, FS_Subset
    <3> HIDE DEF r
    <3>5. Total(w, r) \in Nat /\ w[y] \in Nat /\ w[z] \in Nat
      BY <2>1, <3>4, TotalNat
    <3>6. Total(w, s) = w[z] + Total(w, s \ {z})
      BY <2>2
    <3> HIDE DEF z
    <3>7. Total(w, s \ {y}) = w[z] + Total(w, r)
      BY <3>1, <3>3
    <3>8. Total(w, s) = w[z] + (w[y] + Total(w, r))
      BY <3>2, <3>6
    <3> QED BY <3>5, <3>7, <3>8
  <2> QED BY <2>3, <2>4
<1>2. SUBSET S \subseteq G
  <2>1. \A s \in SUBSET S : (\A y \in s : s \ {y} \in G) => s \in G
    BY <1>1
  <2> HIDE DEF G
  <2> QED BY <2>1, SetInduction
<1> QED BY <1>2

\* It depends on what is summed only ...
LEMMA TotalSame ==
  ASSUME NEW w, NEW v, NEW S, IsFiniteSet(S), \A i \in S : w[i] = v[i]
  PROVE  Total(w, S) = Total(v, S)
<1> DEFINE G == {s \in SUBSET S : Total(w, s) = Total(v, s)}
<1>1. ASSUME NEW s \in SUBSET S, \A x \in s : s \ {x} \in G
      PROVE  Total(w, s) = Total(v, s)
  <2>1. IsFiniteSet(s)
    BY FS_Subset
  <2>2. CASE s = {}
    BY <2>1, <2>2, TotalPick
  <2>3. CASE s # {}
    <3>1. Pick(s) \in s /\ w[Pick(s)] = v[Pick(s)]
      BY <2>3, PickIn
    <3>2. Total(w, s \ {Pick(s)}) = Total(v, s \ {Pick(s)})
      BY <1>1, <3>1
    <3>3. /\ Total(w, s) = w[Pick(s)] + Total(w, s \ {Pick(s)})
          /\ Total(v, s) = v[Pick(s)] + Total(v, s \ {Pick(s)})
      BY <2>1, <2>3, TotalPick
    <3> QED BY <3>1, <3>2, <3>3
  <2> QED BY <2>2, <2>3
<1>2. SUBSET S \subseteq G
  <2>1. \A s \in SUBSET S : (\A x \in s : s \ {x} \in G) => s \in G
    BY <1>1
  <2> HIDE DEF G
  <2> QED BY <2>1, SetInduction
<1> QED BY <1>2

\* ... gains what an element that joins it weighs ...
LEMMA TotalIn ==
  ASSUME NEW w, NEW S, IsFiniteSet(S), \A i \in S : w[i] \in Nat, NEW x, x \notin S, w[x] \in Nat
  PROVE  /\ Total(w, S \union {x}) = Total(w, S) + w[x]
         /\ Total(w, S) \in Nat /\ Total(w, S \union {x}) \in Nat
<1>1. IsFiniteSet(S \union {x}) /\ (S \union {x}) \ {x} = S /\ \A i \in S \union {x} : w[i] \in Nat
  BY FS_AddElement
<1>2. Total(w, S \union {x}) = w[x] + Total(w, (S \union {x}) \ {x})
  BY <1>1, TotalOut
<1>3. Total(w, S) \in Nat
  BY TotalNat
<1>4. Total(w, S \union {x}) = w[x] + Total(w, S)
  BY <1>1, <1>2
<1> HIDE DEF Total
<1> QED BY <1>3, <1>4

\* ... and adds up over disjoint sets.
LEMMA TotalUnion ==
  ASSUME NEW w, NEW S, NEW T, IsFiniteSet(S), IsFiniteSet(T), S \intersect T = {},
         \A i \in S \union T : w[i] \in Nat
  PROVE  Total(w, S \union T) = Total(w, S) + Total(w, T)
<1> DEFINE G == {s \in SUBSET S : Total(w, s \union T) = Total(w, s) + Total(w, T)}
<1>1. ASSUME NEW s \in SUBSET S, \A x \in s : s \ {x} \in G
      PROVE  Total(w, s \union T) = Total(w, s) + Total(w, T)
  <2>1. IsFiniteSet(s) /\ Total(w, T) \in Nat /\ \A i \in s : w[i] \in Nat
    BY FS_Subset, TotalNat
  <2>2. CASE s = {}
    <3>1. s \union T = T
      BY <2>2
    <3> QED BY <2>1, <2>2, <3>1, TotalPick
  <2>3. CASE s # {}
    <3>1. PICK x \in s : TRUE
      BY <2>3
    <3> DEFINE r == s \ {x}
    <3>2. /\ Total(w, r \union T) = Total(w, r) + Total(w, T)
          /\ IsFiniteSet(r) /\ IsFiniteSet(r \union T)
          /\ x \notin r \union T /\ s = r \union {x} /\ s \union T = (r \union T) \union {x}
          /\ \A i \in r : w[i] \in Nat
          /\ \A i \in r \union T : w[i] \in Nat
          /\ w[x] \in Nat
      <4>1. r \in G
        BY <1>1
      <4>2. IsFiniteSet(r) /\ IsFiniteSet(r \union T)
        BY <2>1, FS_Subset, FS_Union
      <4> QED BY <4>1, <4>2
    <3> HIDE DEF r
    <3>3. Total(w, s) = Total(w, r) + w[x] /\ Total(w, r) \in Nat
      BY <3>2, TotalIn
    <3> DEFINE u == r \union T
    <3>4. IsFiniteSet(u) /\ x \notin u /\ (\A i \in u : w[i] \in Nat) /\ s \union T = u \union {x}
      BY <3>2
    <3> HIDE DEF u
    <3>5. Total(w, s \union T) = Total(w, u) + w[x]
      BY <3>2, <3>4, TotalIn
    <3> QED BY <2>1, <3>2, <3>3, <3>5 DEF u
  <2> QED BY <2>2, <2>3
<1>2. SUBSET S \subseteq G
  <2>1. \A s \in SUBSET S : (\A x \in s : s \ {x} \in G) => s \in G
    BY <1>1
  <2> HIDE DEF G
  <2> QED BY <2>1, SetInduction
<1>3. S \in G
  BY <1>2
<1> QED BY <1>3

\* What weighs nothing adds nothing.
LEMMA TotalZero ==
  ASSUME NEW w, NEW S, NEW T, IsFiniteSet(S), IsFiniteSet(T), S \intersect T = {},
         \A i \in S : w[i] \in Nat, \A i \in T : w[i] = 0
  PROVE  Total(w, S \union T) = Total(w, S)
<1> DEFINE v == [i \in T |-> 0]
<1>1. \A i \in S \union T : w[i] \in Nat
  OBVIOUS
<1>2. Total(w, S \union T) = Total(w, S) + Total(w, T)
  BY <1>1, TotalUnion
<1> DEFINE G == {s \in SUBSET T : Total(w, s) = 0}
<1>3. ASSUME NEW s \in SUBSET T, \A x \in s : s \ {x} \in G
      PROVE  Total(w, s) = 0
  <2>1. IsFiniteSet(s)
    BY FS_Subset
  <2>2. CASE s = {}
    BY <2>1, <2>2, TotalPick
  <2>3. CASE s # {}
    <3>1. Pick(s) \in s /\ w[Pick(s)] = 0
      BY <2>3, PickIn
    <3>2. Total(w, s \ {Pick(s)}) = 0
      BY <1>3, <3>1
    <3> QED BY <2>1, <2>3, <3>1, <3>2, TotalPick
  <2> QED BY <2>2, <2>3
<1>4. SUBSET T \subseteq G
  <2>1. \A s \in SUBSET T : (\A x \in s : s \ {x} \in G) => s \in G
    BY <1>3
  <2> HIDE DEF G
  <2> QED BY <2>1, SetInduction
<1>5. Total(w, T) = 0
  BY <1>4
<1>6. Total(w, S) \in Nat
  BY TotalNat
<1> QED BY <1>2, <1>5, <1>6

(***************************************************************************)
(* The tally: reservations leave no gap, the directory in RAM says of each *)
(* entry what the parser would, its counters are the sums of what they     *)
(* count, and a copy holds each object to keep once (TallyInv).            *)
(***************************************************************************)

\* What an entry reserves of the data area.
Weights(p) ==
  [i \in Entry |-> IF Sized(p, i) THEN UnitsOf[obj[p][i].meta.val] ELSE 0]

\* Reservations leave no gap.
Tiled(p) ==
  \A i \in Entry : Sized(p, i) => obj[p][i].start = Total(Weights(p), 1..(i - 1))

\* A complete entry that one before entry n replaces.
Overridden(p, n, i) ==
  /\ Whole(p, i)
  /\ \E j \in 1..(n - 1) : j > i /\ Whole(p, j) /\ obj[p][j].meta.id = obj[p][i].meta.id

\* Directory d says of the entries of p before its first free one what the
\* parser would, and has nothing behind them.
Struck(o) == [o EXCEPT !.status = "DATA_BAD"]
Mirrors(d, p) ==
  \A i \in Entry :
    d.objects[i] = IF i >= d.next THEN NoObject
                   ELSE IF Overridden(p, d.next, i) THEN Struck(ReadObject(obj[p][i]))
                   ELSE ReadObject(obj[p][i])

\* Its counters are those of its entries.
Dead(d) == {i \in 1..(d.next - 1) : d.objects[i].status # "USED"}
Tallies(d, p) ==
  /\ d.data = Total(Weights(p), 1..(d.next - 1))
  /\ d.recEntries = Cardinality(Dead(d))
  /\ d.recData = Total(Weights(p), Dead(d))

\* The entries of a partition and their sums.
LEMMA EntriesFinite ==
  /\ \A m, n \in Int : IsFiniteSet(m..n)
  /\ \A n \in Slot : 1..(n - 1) \subseteq Entry /\ IsFiniteSet(1..(n - 1)) /\ n \in Nat /\ n >= 1
  /\ \A S \in SUBSET Entry : IsFiniteSet(S)
<1>1. \A m, n \in Int : IsFiniteSet(m..n)
  BY FS_Interval
<1>2. IsFiniteSet(Entry)
  BY <1>1, Indices DEF Entry
<1>3. \A S \in SUBSET Entry : IsFiniteSet(S)
  BY <1>2, FS_Subset
<1>4. \A n \in Slot : 1..(n - 1) \subseteq Entry /\ n \in Nat /\ n >= 1
  BY Indices DEF Slot, Entry
<1> QED BY <1>1, <1>3, <1>4

\* What an entry of a sound partition weighs.
LEMMA WeightIs ==
  ASSUME FlashTypeOK, NEW p \in Part, Sound(p), NEW i \in Entry
  PROVE  /\ Weights(p)[i] \in Nat
         /\ Sized(p, i) => /\ Weights(p)[i] = UnitsOf[obj[p][i].meta.val]
                           /\ End(p, i) = obj[p][i].start + Weights(p)[i]
         /\ ~Sized(p, i) => Weights(p)[i] = 0
BY EntryFacts DEF Weights, End

\* One entry more.
LEMMA TotalNext ==
  ASSUME NEW w, \A i \in Entry : w[i] \in Nat, NEW e \in Entry
  PROVE  /\ Total(w, 1..e) = Total(w, 1..(e - 1)) + w[e]
         /\ Total(w, 1..(e - 1)) \in Nat
<1>1. /\ e \in Nat /\ e >= 1 /\ e \in Slot
      /\ \A i \in 1..(e - 1) : i \in Entry
  BY Indices DEF Entry, Slot
<1>2. IsFiniteSet(1..(e - 1)) /\ e \notin 1..(e - 1) /\ 1..e = (1..(e - 1)) \union {e}
  BY <1>1, EntriesFinite
<1> DEFINE S == 1..(e - 1)
<1>3. IsFiniteSet(S) /\ e \notin S /\ (\A i \in S : w[i] \in Nat) /\ w[e] \in Nat
  BY <1>1, <1>2
<1> HIDE DEF S
<1>4. Total(w, S \union {e}) = Total(w, S) + w[e] /\ Total(w, S) \in Nat
  BY <1>3, TotalIn
<1> QED BY <1>2, <1>4 DEF S

\* All that is reserved before entry n ends where the last reservation does.
LEMMA TopIs ==
  ASSUME FlashTypeOK, NEW p \in Part, Sound(p), Tiled(p), NEW n \in Slot
  PROVE  /\ (\A i \in 1..(n - 1) : ~Sized(p, i)) => Total(Weights(p), 1..(n - 1)) = 0
         /\ \A m \in 1..(n - 1) :
              Sized(p, m) /\ (\A i \in 1..(n - 1) : Sized(p, i) => m >= i)
              => Total(Weights(p), 1..(n - 1)) = End(p, m)
<1> DEFINE w == Weights(p)
<1>1. \A i \in Entry : w[i] \in Nat /\ (~Sized(p, i) => w[i] = 0)
  BY WeightIs
<1>2. /\ 1..(n - 1) \subseteq Entry /\ IsFiniteSet(1..(n - 1)) /\ n \in Nat
      /\ IsFiniteSet({})
  BY EntriesFinite, FS_EmptySet
<1> HIDE DEF w
<1>3. ASSUME \A i \in 1..(n - 1) : ~Sized(p, i)
      PROVE  Total(w, 1..(n - 1)) = 0
  <2> DEFINE T == 1..(n - 1)
  <2>1. IsFiniteSet(T) /\ \A i \in T : w[i] = 0
    BY <1>1, <1>2, <1>3
  <2> HIDE DEF T
  <2>2. Total(w, {} \union T) = Total(w, {})
    BY <1>2, <2>1, TotalZero
  <2>3. {} \union T = T /\ Total(w, {}) = 0
    BY <1>2, TotalPick
  <2> QED BY <2>2, <2>3 DEF T
<1>4. ASSUME NEW m \in 1..(n - 1), Sized(p, m), \A i \in 1..(n - 1) : Sized(p, i) => m >= i
      PROVE  Total(w, 1..(n - 1)) = End(p, m)
  <2> DEFINE S == 1..m
             T == (m + 1)..(n - 1)
  <2>1. /\ m \in Entry /\ m \in Nat /\ S \union T = 1..(n - 1) /\ S \intersect T = {}
        /\ IsFiniteSet(S) /\ IsFiniteSet(T)
    BY <1>2, <1>4, EntriesFinite, Indices
  <2>2. \A i \in S : w[i] \in Nat
    BY <1>1, <1>2, <2>1
  <2>3. \A i \in T : w[i] = 0
    <3> SUFFICES ASSUME NEW i \in T PROVE w[i] = 0
      OBVIOUS
    <3>1. i \in 1..(n - 1) /\ ~(m >= i)
      BY <1>2, <2>1
    <3> QED BY <1>1, <1>2, <1>4, <3>1
  <2>4. Total(w, S) = Total(w, 1..(m - 1)) + w[m]
    BY <1>1, <2>1, TotalNext
  <2>5. obj[p][m].start = Total(w, 1..(m - 1)) /\ End(p, m) = obj[p][m].start + w[m]
    BY <1>4, <2>1, WeightIs DEF Tiled, w
  <2> HIDE DEF S, T
  <2>6. Total(w, S \union T) = Total(w, S)
    BY <2>1, <2>2, <2>3, TotalZero
  <2> QED BY <2>1, <2>4, <2>5, <2>6
<1> QED BY <1>3, <1>4 DEF w

\* What the parser returns.
ParsedObjects(os) ==
  [i \in Entry |-> IF Superseded(os, i) THEN Struck(os[i]) ELSE os[i]]
ParsedSized(os, n) == {i \in 1..(n - 1) : os[i].status # "META_BAD"}
ParsedDead(os, n) ==
  {i \in Entry : Superseded(os, i)} \union {i \in 1..(n - 1) : os[i].status # "USED"}
ParsedTop(os, S) == IF S = {} THEN 0 ELSE os[Max(S)].start + Extent(os[Max(S)])
ParsedExtents(os, S) == MapThenSumSet(LAMBDA i : Extent(os[i]), S)
\* The parts of the parsed directory, one by one.
LEMMA ParseIs ==
  ASSUME NEW os, NEW d, d = Parse(os)
  PROVE  /\ d = [objects |-> d.objects, next |-> d.next, data |-> d.data,
                 recEntries |-> d.recEntries, recData |-> d.recData]
         /\ d.objects = ParsedObjects(os)
         /\ d.data = Min({ParsedTop(os, ParsedSized(os, d.next)), DataUnits})
         /\ d.recEntries = Cardinality(ParsedDead(os, d.next))
         /\ d.recData = ParsedExtents(os, ParsedDead(os, d.next))
<1> DEFINE free == {i \in Entry : os[i].status = "FREE"}
           end == Min(free \union {ObjectCount + 1})
           old == {i \in Entry : Superseded(os, i)}
           objects == [i \in Entry |-> IF i \in old THEN [os[i] EXCEPT !.status = "DATA_BAD"]
                                       ELSE os[i]]
<1>1. d = [objects |-> objects, next |-> end,
           data |-> Min({ParsedTop(os, ParsedSized(os, end)), DataUnits}),
           recEntries |-> Cardinality(ParsedDead(os, end)),
           recData |-> ParsedExtents(os, ParsedDead(os, end))]
  BY Zenon DEF Parse, ParsedTop, ParsedSized, ParsedDead, ParsedExtents
<1>2. objects = ParsedObjects(os)
  BY DEF ParsedObjects, Struck
<1> HIDE DEF objects, end
<1>3. PICK o, e, t, c, x : /\ o = objects /\ e = end
                           /\ t = Min({ParsedTop(os, ParsedSized(os, end)), DataUnits})
                           /\ c = Cardinality(ParsedDead(os, end))
                           /\ x = ParsedExtents(os, ParsedDead(os, end))
  OBVIOUS
<1>4. d = [objects |-> o, next |-> e, data |-> t, recEntries |-> c, recData |-> x]
  BY <1>1, <1>3, Zenon
<1>5. d.objects = o /\ d.next = e /\ d.data = t /\ d.recEntries = c /\ d.recData = x
  BY <1>4
<1> QED BY <1>2, <1>3, <1>4, <1>5

\* A directory read from a sound partition tells of it as it is ...
LEMMA ReadTallies ==
  ASSUME FlashTypeOK, NEW p \in Part, Sound(p), Tiled(p), NEW d, d = ReadDirectory(p)
  PROVE  Mirrors(d, p) /\ Tallies(d, p)
<1> DEFINE os == [i \in Entry |-> ReadObject(obj[p][i])]
           n == d.next
           dead == ParsedDead(os, n)
           sized == ParsedSized(os, n)
           w == Weights(p)
<1>1. d = Parse(os)
  BY DEF ReadDirectory
<1>2. \A i \in Entry : os[i] = ReadObject(obj[p][i])
  OBVIOUS
<1> HIDE DEF os
<1>3. /\ d.objects = ParsedObjects(os)
      /\ d.data = Min({ParsedTop(os, sized), DataUnits})
      /\ d.recEntries = Cardinality(dead)
      /\ d.recData = ParsedExtents(os, dead)
  BY <1>1, ParseIs
<1>4. /\ n \in Slot
      /\ \A i \in 1..(n - 1) : obj[p][i].epoch
      /\ \A i \in Entry : i >= n => obj[p][i] = BlankObj
  BY DirectoryRead
<1> HIDE DEF n, dead, sized, w
<1>5. /\ 1..(n - 1) \subseteq Entry /\ n \in Nat /\ ObjectCount \in Nat
      /\ \A i \in Entry : i \in Nat /\ i >= 1 /\ (i >= n \/ i \in 1..(n - 1))
      /\ \A i \in 1..(n - 1) : ~(i >= n)
  <2>1. 1..(n - 1) \subseteq Entry /\ n \in Nat
    BY <1>4, EntriesFinite
  <2> QED BY <2>1, Indices
<1>6. \A i \in Entry :
        /\ os[i].status = "USED" <=> Whole(p, i)
        /\ os[i].status = "META_BAD" <=> obj[p][i].epoch /\ ~Sized(p, i)
        /\ Sized(p, i) => os[i].start = obj[p][i].start /\ os[i].meta = obj[p][i].meta
                          /\ Extent(os[i]) = UnitsOf[obj[p][i].meta.val]
        /\ os[i] \in MemObject
  BY <1>2, ReadIs
<1>7. \A i \in Entry : Whole(p, i) => Sized(p, i) /\ i \in 1..(n - 1)
  <2>1. BlankObj.count = Blank
    BY DEF BlankObj
  <2> QED BY <1>4, <1>5, <2>1, EntryFacts DEF Whole
<1>8. \A i \in Entry : Superseded(os, i) <=> Overridden(p, n, i)
  <2> SUFFICES ASSUME NEW i \in Entry
               PROVE  Superseded(os, i) <=> Overridden(p, n, i)
    OBVIOUS
  <2>1. \A j \in Entry : Whole(p, j) => os[j].meta = obj[p][j].meta
    BY <1>6, <1>7
  <2>2. ASSUME Superseded(os, i) PROVE Overridden(p, n, i)
    <3>1. PICK j \in Entry : j > i /\ os[j].status = "USED" /\ os[j].meta.id = os[i].meta.id
      BY <2>2 DEF Superseded
    <3>2. Whole(p, i) /\ Whole(p, j) /\ j \in 1..(n - 1)
      BY <1>6, <1>7, <2>2, <3>1 DEF Superseded
    <3> QED BY <2>1, <3>1, <3>2 DEF Overridden
  <2>3. ASSUME Overridden(p, n, i) PROVE Superseded(os, i)
    <3>1. PICK j \in 1..(n - 1) : j > i /\ Whole(p, j) /\ obj[p][j].meta.id = obj[p][i].meta.id
      BY <2>3 DEF Overridden
    <3>2. j \in Entry /\ os[i].status = "USED" /\ os[j].status = "USED"
      BY <1>5, <1>6, <2>3, <3>1 DEF Overridden
    <3> QED BY <2>1, <2>3, <3>1, <3>2 DEF Superseded, Overridden
  <2> QED BY <2>2, <2>3
<1>9. Mirrors(d, p)
  <2> SUFFICES ASSUME NEW i \in Entry
               PROVE  d.objects[i] = IF i >= n THEN NoObject
                                     ELSE IF Overridden(p, n, i) THEN Struck(ReadObject(obj[p][i]))
                                     ELSE ReadObject(obj[p][i])
    BY DEF Mirrors, n
  <2>1. d.objects[i] = IF Overridden(p, n, i) THEN Struck(os[i]) ELSE os[i]
    BY <1>3, <1>8 DEF ParsedObjects
  <2>2. CASE i >= n
    <3>1. ~Overridden(p, n, i)
      BY <1>5, <1>7, <2>2 DEF Overridden
    <3>2. obj[p][i] = BlankObj
      BY <1>4, <2>2
    <3>3. ReadObject(BlankObj) = NoObject
      <4> PICK o : o = BlankObj
        OBVIOUS
      <4>1. o = [epoch |-> FALSE, meta |-> Blank, start |-> Blank, count |-> Blank]
        BY DEF BlankObj
      <4>2. ReadObject(o) = [NoObject EXCEPT !.status = "FREE"]
        BY <4>1 DEF ReadObject, StateStatus
      <4>3. [NoObject EXCEPT !.status = "FREE"] = NoObject
        BY DEF NoObject
      <4> QED BY <4>2, <4>3
    <3> QED BY <1>2, <2>1, <2>2, <3>1, <3>2, <3>3
  <2>3. CASE ~(i >= n)
    BY <1>2, <2>1, <2>3
  <2> QED BY <2>2, <2>3
<1>10. dead = Dead(d)
  <2>1. \A i \in Entry : Superseded(os, i) => i \in 1..(n - 1) /\ d.objects[i].status # "USED"
    <3> SUFFICES ASSUME NEW i \in Entry, Superseded(os, i)
                 PROVE  i \in 1..(n - 1) /\ d.objects[i].status # "USED"
      OBVIOUS
    <3>1. d.objects[i] = Struck(os[i])
      BY <1>3 DEF ParsedObjects
    <3>2. Struck(os[i]).status = "DATA_BAD"
      BY <1>6 DEF Struck, MemObject
    <3>3. i \in 1..(n - 1)
      BY <1>7, <1>8 DEF Overridden
    <3> QED BY <3>1, <3>2, <3>3
  <2>2. \A i \in Entry : ~Superseded(os, i) => d.objects[i] = os[i]
    BY <1>3 DEF ParsedObjects
  <2>3. \A i : i \in dead <=> \/ i \in Entry /\ Superseded(os, i)
                              \/ i \in 1..(n - 1) /\ os[i].status # "USED"
    BY DEF dead, ParsedDead
  <2>4. \A i : i \in Dead(d) <=> i \in 1..(n - 1) /\ d.objects[i].status # "USED"
    BY DEF Dead, n
  <2>5. \A i \in 1..(n - 1) : i \in Entry
    BY <1>5
  <2> QED BY <2>1, <2>2, <2>3, <2>4, <2>5
<1>11. \A i \in dead : w[i] = Extent(os[i])
  <2> SUFFICES ASSUME NEW i \in dead PROVE w[i] = Extent(os[i])
    OBVIOUS
  <2>1. i \in 1..(n - 1) /\ i \in Entry /\ obj[p][i].epoch
    BY <1>4, <1>5, <1>10 DEF Dead, n
  <2>2. CASE Sized(p, i)
    BY <1>6, <2>1, <2>2, WeightIs DEF w
  <2>3. CASE ~Sized(p, i)
    <3>1. os[i].status = "META_BAD"
      BY <1>6, <2>1, <2>3
    <3> QED BY <2>1, <2>3, <3>1, WeightIs DEF w, Extent
  <2> QED BY <2>2, <2>3
<1>12. d.recData = Total(w, Dead(d))
  <2>1. ParsedExtents(os, dead) = Total(w, dead)
    BY <1>11, SumIs DEF ParsedExtents
  <2> QED BY <1>3, <1>10, <2>1
<1>13. d.data = Total(w, 1..(n - 1))
  <2>1. \A i : i \in sized <=> i \in 1..(n - 1) /\ Sized(p, i)
    BY <1>4, <1>5, <1>6 DEF sized, ParsedSized
  <2>2. CASE sized = {}
    <3>1. {0, DataUnits} \subseteq Nat /\ d.data = Min({0, DataUnits})
      BY <1>3, <2>2, Indices DEF ParsedTop
    <3>2. d.data = 0
      BY <3>1, MinMeans, Indices
    <3>3. Total(w, 1..(n - 1)) = 0
      BY <1>4, <2>1, <2>2, TopIs DEF w
    <3> QED BY <3>2, <3>3
  <2>3. CASE sized # {}
    <3> DEFINE m == Max(sized)
    <3>1. m \in sized /\ \A i \in sized : m >= i
      <4>1. sized \subseteq 0..ObjectCount
        BY <1>5, <2>1, Indices
      <4> QED BY <2>3, <4>1, MaxMeans, Indices
    <3>2. ParsedTop(os, sized) = os[m].start + Extent(os[m])
      BY <2>3 DEF ParsedTop
    <3> HIDE DEF m
    <3>3. m \in 1..(n - 1) /\ m \in Entry /\ Sized(p, m)
      BY <1>5, <2>1, <3>1
    <3>4. ParsedTop(os, sized) = End(p, m) /\ End(p, m) \in Nat /\ End(p, m) <= DataUnits
      BY <1>6, <3>2, <3>3, EntryFacts DEF End
    <3>5. d.data = End(p, m)
      <4> DEFINE t == ParsedTop(os, sized)
      <4>1. {t, DataUnits} \subseteq Nat
        BY <3>4, Indices
      <4> HIDE DEF t
      <4>2. /\ Min({t, DataUnits}) \in {t, DataUnits}
            /\ Min({t, DataUnits}) <= t
        BY <4>1, MinMeans
      <4>3. d.data = Min({t, DataUnits}) /\ t = End(p, m)
        BY <1>3, <3>4 DEF t
      <4> QED BY <3>4, <4>2, <4>3, Indices
    <3>6. \A i \in 1..(n - 1) : Sized(p, i) => m >= i
      BY <2>1, <3>1
    <3> QED BY <1>4, <3>3, <3>5, <3>6, TopIs DEF w
  <2> QED BY <2>2, <2>3
<1> QED BY <1>3, <1>9, <1>10, <1>12, <1>13 DEF Tallies, w, n

\* ... goes on to while the entries it names stay as they are ...
LEMMA TalliesKept ==
  ASSUME NEW p \in Part, NEW d, d.next \in Slot, Mirrors(d, p), Tallies(d, p),
         \A i \in 1..(d.next - 1) : obj'[p][i] = obj[p][i]
  PROVE  Mirrors(d, p)' /\ Tallies(d, p)'
<1> DEFINE n == d.next
<1>1. /\ 1..(n - 1) \subseteq Entry /\ IsFiniteSet(1..(n - 1)) /\ n \in Nat
      /\ Dead(d) \subseteq 1..(n - 1) /\ IsFiniteSet(Dead(d))
      /\ \A i \in Entry : ~(i >= n) => i \in 1..(n - 1)
  <2>1. 1..(n - 1) \subseteq Entry /\ IsFiniteSet(1..(n - 1)) /\ n \in Nat
    BY EntriesFinite
  <2>2. Dead(d) \subseteq 1..(n - 1)
    BY DEF Dead
  <2>3. IsFiniteSet(Dead(d))
    BY <2>1, <2>2, FS_Subset
  <2> QED BY <2>1, <2>2, <2>3, Indices
<1>2. \A i \in 1..(n - 1) : Weights(p)'[i] = Weights(p)[i]
  BY <1>1 DEF Weights, Sized
<1> DEFINE w == Weights(p)
           v == Weights(p)'
<1>3. \A i \in 1..(n - 1) : w[i] = v[i]
  BY <1>2
<1> HIDE DEF w, v
<1>4. Total(w, 1..(n - 1)) = Total(v, 1..(n - 1)) /\ Total(w, Dead(d)) = Total(v, Dead(d))
  <2> DEFINE S == 1..(n - 1)
             T == Dead(d)
  <2>1. IsFiniteSet(S) /\ IsFiniteSet(T) /\ (\A i \in S : w[i] = v[i]) /\ (\A i \in T : w[i] = v[i])
    BY <1>1, <1>3
  <2> HIDE DEF S, T
  <2>2. Total(w, S) = Total(v, S) /\ Total(w, T) = Total(v, T)
    BY <2>1, TotalSame
  <2> QED BY <2>2 DEF S, T
<1>5. Tallies(d, p)'
  BY <1>4 DEF Tallies, w, v
<1>6. \A i \in 1..(n - 1) : Overridden(p, n, i)' <=> Overridden(p, n, i)
  BY DEF Overridden, Whole
<1>7. Mirrors(d, p)'
  <2> SUFFICES ASSUME NEW i \in Entry
               PROVE  d.objects[i] = IF i >= n THEN NoObject
                                     ELSE IF Overridden(p, n, i)' THEN Struck(ReadObject(obj'[p][i]))
                                     ELSE ReadObject(obj'[p][i])
    BY DEF Mirrors
  <2>1. CASE i >= n
    BY <2>1 DEF Mirrors
  <2>2. CASE ~(i >= n)
    <3>1. i \in 1..(n - 1) /\ obj'[p][i] = obj[p][i] /\ (Overridden(p, n, i)' <=> Overridden(p, n, i))
      BY <1>1, <1>6, <2>2
    <3> HIDE DEF n
    <3>2. d.objects[i] = IF Overridden(p, n, i) THEN Struck(ReadObject(obj[p][i]))
                         ELSE ReadObject(obj[p][i])
      BY <2>2 DEF Mirrors, n
    <3> QED BY <2>2, <3>1, <3>2
  <2> QED BY <2>1, <2>2
<1> QED BY <1>5, <1>7

\* What AddObject counts as reclaimable.
LEMMA AppendedCounts ==
  ASSUME DirTyped, NEW a, a = Appended
  PROVE  /\ Find(dir, op.id) = {} => a.recEntries = dir.recEntries /\ a.recData = dir.recData
         /\ Find(dir, op.id) # {} =>
              /\ a.objects = [[dir.objects EXCEPT ![dir.next] =
                                 [status |-> "USED", meta |-> Target.meta, start |-> dir.data,
                                  count |-> Length]]
                              EXCEPT ![Min(Find(dir, op.id))].status = "DATA_BAD"]
              /\ a.recEntries = dir.recEntries + 1
              /\ a.recData = dir.recData + dir.objects[Min(Find(dir, op.id))].count
<1> DEFINE old == Find(dir, op.id)
           new == [status |-> "USED", meta |-> Target.meta, start |-> dir.data, count |-> Length]
           objects == [dir.objects EXCEPT ![dir.next] = new]
           grown == [dir EXCEPT !.objects = objects, !.next = @ + 1, !.data = @ + Length]
           one == Min(old)
<1>1. PICK o, n, d, e, r :
        /\ dir = [objects |-> o, next |-> n, data |-> d, recEntries |-> e, recData |-> r]
        /\ dir.recEntries = e /\ dir.recData = r
  BY DEF DirTyped
<1>2. PICK x, y, z : x = objects /\ y = dir.next + 1 /\ z = dir.data + Length
  OBVIOUS
<1>3. PICK d1 : d1 = [dir EXCEPT !.objects = x]
  OBVIOUS
<1>4. PICK d2 : d2 = [d1 EXCEPT !.next = y]
  OBVIOUS
<1>5. PICK d3 : d3 = [d2 EXCEPT !.data = z]
  OBVIOUS
<1>6. d3 = [objects |-> x, next |-> y, data |-> z, recEntries |-> e, recData |-> r]
  <2>1. d1 = [objects |-> x, next |-> n, data |-> d, recEntries |-> e, recData |-> r]
    BY <1>1, <1>3
  <2>2. d2 = [objects |-> x, next |-> y, data |-> d, recEntries |-> e, recData |-> r]
    BY <1>4, <2>1
  <2> QED BY <1>5, <2>2
<1>7. grown = [[[dir EXCEPT !.objects = objects] EXCEPT !.next = dir.next + 1]
               EXCEPT !.data = dir.data + Length]
  <2> HIDE DEF objects
  <2> QED OBVIOUS
<1> HIDE DEF grown
<1>8. grown = d3
  <2> HIDE DEF objects
  <2> QED BY <1>2, <1>3, <1>4, <1>5, <1>7, Zenon
<1>9. CASE old = {}
  <2>1. a = grown
    BY <1>9 DEF Appended, grown
  <2>2. a = d3
    BY <1>8, <2>1
  <2>3. a.recEntries = e /\ a.recData = r
    BY <1>6, <2>2
  <2> HIDE DEF old
  <2> QED BY <1>1, <1>9, <2>3 DEF old
<1>10. CASE old # {}
  <2>1. a = [grown EXCEPT !.objects[one].status = "DATA_BAD", !.recEntries = @ + 1,
                          !.recData = @ + dir.objects[one].count]
    BY <1>10 DEF Appended, grown
  <2>2. PICK f, k : f = dir.objects[one].count /\ k = one
    OBVIOUS
  <2>3. a = [d3 EXCEPT !.objects[k].status = "DATA_BAD", !.recEntries = @ + 1,
                       !.recData = @ + f]
    <3> HIDE DEF one, old, objects
    <3> QED BY <1>8, <2>1, <2>2, Zenon
  <2> HIDE DEF one, old, objects, new
  <2>4. /\ a.objects = [x EXCEPT ![k].status = "DATA_BAD"]
        /\ a.recEntries = e + 1 /\ a.recData = r + f
    BY <1>6, <2>3
  <2>5. /\ a.objects = [objects EXCEPT ![one].status = "DATA_BAD"]
        /\ a.recEntries = dir.recEntries + 1
        /\ a.recData = dir.recData + dir.objects[one].count
    BY <1>1, <1>2, <2>2, <2>4
  <2> QED BY <1>10, <2>5 DEF one, old, objects, new
<1> QED BY <1>9, <1>10

\* What is left of an entry once it is struck.
LEMMA StruckIs ==
  ASSUME NEW o \in MemObject
  PROVE  /\ Struck(o).status = "DATA_BAD" /\ Struck(o).meta = o.meta
         /\ Struck(o).start = o.start /\ Struck(o).count = o.count
BY DEF Struck, MemObject

\* ... and gains the entry that AddObject wrote.
LEMMA TalliesAppended ==
  ASSUME HeaderInv, FlashInv, pc = "obj_count", op.kind = "add", Ready, Write,
         Mirrors(dir, active), Tallies(dir, active), NEW a, a = Appended,
         NEW p \in Part, p = active
  PROVE  Mirrors(a, p)' /\ Tallies(a, p)'
<1>0. /\ Running /\ ~dirBad /\ Sound(p) /\ FlashTypeOK /\ DirTyped /\ DirInv
      /\ Target.part = p /\ Target.entry = dir.next /\ Target.start = dir.data
      /\ dir.next \in Entry /\ dir.data \in Nat /\ Target.meta \in Meta /\ Length \in Nat
      /\ dir.data + Length <= DataUnits /\ Target.meta.id = op.id
      /\ dir.objects \in [Entry -> MemObject]
  <2>1. pc \in ObjPc
    BY DEF ObjPc
  <2>2. /\ Running /\ ~dirBad /\ Sound(p) /\ FlashTypeOK /\ DirTyped /\ DirInv
        /\ dir.objects \in [Entry -> MemObject]
    BY <2>1, TargetFacts DEF FlashInv, DirTyped
  <2>3. /\ Target.part = p /\ Target.entry = dir.next /\ Target.start = dir.data
        /\ Target.meta = [id |-> op.id, val |-> op.val]
    BY TargetIs
  <2>4. Target.entry \in Entry /\ Target.start \in Nat /\ Target.meta \in Meta /\ Length \in Nat
        /\ Target.start + Length <= DataUnits
    BY <2>1, TargetFacts DEF FlashInv, TargetInv
  <2>5. Target.meta.id = op.id
    BY <2>3
  <2> QED BY <2>2, <2>3, <2>4, <2>5
<1>1. PICK n \in Entry, len \in Nat, meta \in Meta : n = dir.next /\ len = Length /\ meta = Target.meta
  BY <1>0
<1>2. PICK ob \in [Entry -> MemObject] : ob = dir.objects
  BY <1>0
<1>3. /\ obj'[p][n] = [epoch |-> Programmed, meta |-> meta, start |-> dir.data, count |-> len]
      /\ \A i \in Entry : i # n => obj'[p][i] = obj[p][i]
  <2>1. obj' = [obj EXCEPT ![p][n] = Words(pc)]
    BY <1>0, <1>1, ObjWrite DEF ObjPc
  <2>2. Words(pc) = [epoch |-> Programmed, meta |-> meta, start |-> dir.data, count |-> len]
    BY <1>0, <1>1 DEF Words
  <2> QED BY <1>0, <2>1, <2>2 DEF FlashTypeOK
<1>4. /\ n \in Nat /\ n >= 1 /\ n \in Slot /\ n + 1 \in Slot /\ (n + 1) - 1 = n
      /\ 1..(n - 1) \subseteq Entry /\ 1..n = (1..(n - 1)) \union {n} /\ n \notin 1..(n - 1)
      /\ IsFiniteSet(1..(n - 1))
      /\ \A i \in Entry : i = n \/ i \in 1..(n - 1) \/ i >= n + 1
      /\ \A i \in Entry : i >= n + 1 => i >= n /\ i # n
      /\ \A i \in 1..(n - 1) : ~(i >= n) /\ ~(i >= n + 1) /\ i # n
      /\ ~(n >= n + 1)
  <2>1. /\ n \in Nat /\ n >= 1 /\ n \in Slot /\ n + 1 \in Slot /\ (n + 1) - 1 = n
    BY Indices DEF Entry, Slot
  <2>2. 1..(n - 1) \subseteq Entry /\ IsFiniteSet(1..(n - 1))
    BY <2>1, EntriesFinite
  <2>3. /\ 1..n = (1..(n - 1)) \union {n} /\ n \notin 1..(n - 1)
        /\ \A i \in 1..(n - 1) : ~(i >= n) /\ ~(i >= n + 1) /\ i # n
        /\ ~(n >= n + 1)
    BY <2>1
  <2>4. \A i \in Entry : (i = n \/ i \in 1..(n - 1) \/ i >= n + 1) /\ (i >= n + 1 => i >= n /\ i # n)
    BY <2>1, Indices
  <2> QED BY <2>1, <2>2, <2>3, <2>4
<1>5. /\ \A i \in 1..(n - 1) :
           ob[i] = IF Overridden(p, n, i) THEN Struck(ReadObject(obj[p][i])) ELSE ReadObject(obj[p][i])
      /\ \A i \in Entry : i >= n => ob[i] = NoObject
  BY <1>1, <1>2, <1>4 DEF Mirrors
\* The entry written.
<1>6. ReadObject(obj'[p][n]) = [status |-> "USED", meta |-> meta, start |-> dir.data, count |-> len]
  <2> PICK o : o = obj'[p][n]
    OBVIOUS
  <2>1. o.epoch /\ o.meta = meta /\ o.start = dir.data /\ o.count = len
    BY <1>3 DEF Programmed
  <2>2. o.start # Blank /\ o.count # Blank
    BY <1>0, <1>1, <2>1, WordAssumption
  <2>3. StateStatus(o.epoch, o.start # Blank, o.count # Blank) = "USED"
    BY <2>1, <2>2 DEF StateStatus
  <2>4. ReadObject(o) = [status |-> "USED", meta |-> o.meta, start |-> o.start, count |-> o.count]
    BY <2>3 DEF ReadObject
  <2> QED BY <2>1, <2>4
<1>7. Whole(p, n)' /\ obj'[p][n].meta = meta /\ obj'[p][n].start = dir.data
  BY <1>0, <1>1, <1>3, WordAssumption DEF Whole
<1>8. \A i \in 1..(n - 1) : obj'[p][i] = obj[p][i] /\ (Whole(p, i)' <=> Whole(p, i))
  BY <1>3, <1>4 DEF Whole
\* The entry it replaces.
<1> DEFINE old == Find(dir, op.id)
<1>9. \A i : i \in old <=> i \in 1..(n - 1) /\ ob[i].status = "USED" /\ ob[i].meta.id = op.id
  BY <1>1, <1>2 DEF Find
<1>10. \A i \in 1..(n - 1) :
         /\ ReadObject(obj[p][i]) \in MemObject
         /\ ReadObject(obj[p][i]).status = "USED" <=> Whole(p, i)
         /\ Whole(p, i) => ReadObject(obj[p][i]).meta = obj[p][i].meta
         /\ Whole(p, i) => ReadObject(obj[p][i]).count = Weights(p)[i]
  <2> SUFFICES ASSUME NEW i \in 1..(n - 1)
               PROVE  /\ ReadObject(obj[p][i]) \in MemObject
                      /\ ReadObject(obj[p][i]).status = "USED" <=> Whole(p, i)
                      /\ Whole(p, i) => ReadObject(obj[p][i]).meta = obj[p][i].meta
                      /\ Whole(p, i) => ReadObject(obj[p][i]).count = Weights(p)[i]
    OBVIOUS
  <2>0. i \in Entry
    BY <1>4
  <2>1. PICK r : r = ReadObject(obj[p][i])
    OBVIOUS
  <2>2. /\ r.status = "USED" <=> Whole(p, i)
        /\ r \in MemObject
        /\ Whole(p, i) => r = [status |-> "USED", meta |-> obj[p][i].meta,
                               start |-> obj[p][i].start, count |-> obj[p][i].count]
    BY <1>0, <2>0, <2>1, ReadIs
  <2>3. Whole(p, i) => Sized(p, i) /\ obj[p][i].count = Weights(p)[i]
    BY <1>0, <2>0, EntryFacts, WeightIs
  <2>4. Whole(p, i) => r.meta = obj[p][i].meta /\ r.count = obj[p][i].count
    BY <2>2
  <2> QED BY <2>1, <2>2, <2>3, <2>4
<1>11. \A i \in 1..(n - 1) : ob[i].status = "USED" <=> Whole(p, i) /\ ~Overridden(p, n, i)
  <2> SUFFICES ASSUME NEW i \in 1..(n - 1)
               PROVE  ob[i].status = "USED" <=> Whole(p, i) /\ ~Overridden(p, n, i)
    OBVIOUS
  <2>1. CASE Overridden(p, n, i)
    <3>1. ob[i].status = "DATA_BAD"
      BY <1>5, <1>10, <2>1, StruckIs
    <3> QED BY <2>1, <3>1
  <2>2. CASE ~Overridden(p, n, i)
    BY <1>5, <1>10, <2>2
  <2> QED BY <2>1, <2>2
<1>12. \A i \in 1..(n - 1) : i \in old <=> Whole(p, i) /\ ~Overridden(p, n, i) /\ obj[p][i].meta.id = op.id
  <2> SUFFICES ASSUME NEW i \in 1..(n - 1), Whole(p, i), ~Overridden(p, n, i)
               PROVE  ob[i].meta.id = obj[p][i].meta.id
    BY <1>9, <1>11
  <2>1. ob[i] = ReadObject(obj[p][i])
    BY <1>5
  <2> QED BY <1>10, <2>1
<1> HIDE DEF old
<1>13. \A i, k \in old : i = k
  <2> SUFFICES ASSUME NEW i \in old, NEW k \in old, k > i PROVE FALSE
    <3>1. \A i \in old : i \in Nat
      BY <1>4, <1>9
    <3> QED BY <3>1
  <2> QED BY <1>9, <1>12 DEF Overridden
<1>14. \A i \in 1..(n - 1) : Overridden(p, n + 1, i)' <=> Overridden(p, n, i) \/ i \in old
  <2> SUFFICES ASSUME NEW i \in 1..(n - 1)
               PROVE  Overridden(p, n + 1, i)' <=> Overridden(p, n, i) \/ i \in old
    OBVIOUS
  <2>1. ASSUME Overridden(p, n, i) PROVE Overridden(p, n + 1, i)'
    <3>1. PICK j \in 1..(n - 1) : j > i /\ Whole(p, j) /\ obj[p][j].meta.id = obj[p][i].meta.id
      BY <2>1 DEF Overridden
    <3> QED BY <1>4, <1>8, <2>1, <3>1 DEF Overridden
  <2>2. ASSUME i \in old PROVE Overridden(p, n + 1, i)'
    <3>1. Whole(p, i)' /\ obj'[p][i].meta.id = op.id
      BY <1>8, <1>12, <2>2
    <3>2. n > i /\ n \in 1..((n + 1) - 1) /\ obj'[p][n].meta.id = op.id
      BY <1>0, <1>1, <1>4, <1>7
    <3> QED BY <1>7, <3>1, <3>2 DEF Overridden
  <2>3. ASSUME Overridden(p, n + 1, i)', ~Overridden(p, n, i) PROVE i \in old
    <3>1. PICK j \in 1..((n + 1) - 1) :
            j > i /\ Whole(p, j)' /\ obj'[p][j].meta.id = obj'[p][i].meta.id
      BY <2>3 DEF Overridden
    <3>2. Whole(p, i)' /\ Whole(p, i)
      BY <1>8, <2>3 DEF Overridden
    <3>3. j = n
      <4> SUFFICES ASSUME j \in 1..(n - 1) PROVE FALSE
        BY <1>4, <3>1
      <4> QED BY <1>8, <2>3, <3>1, <3>2 DEF Overridden
    <3>4. obj[p][i].meta.id = op.id
      BY <1>0, <1>1, <1>7, <1>8, <3>1, <3>3
    <3> QED BY <1>12, <2>3, <3>2, <3>4
  <2> QED BY <2>1, <2>2, <2>3
\* The directory.
<1>15. /\ a.next = n + 1 /\ a.data = dir.data + len
       /\ a.objects[n] = [status |-> "USED", meta |-> meta, start |-> dir.data, count |-> len]
       /\ \A i \in Entry : i # n =>
            a.objects[i] = IF i \in old THEN Struck(ob[i]) ELSE ob[i]
       /\ old = {} => a.recEntries = dir.recEntries /\ a.recData = dir.recData
       /\ \A i \in old : a.recEntries = dir.recEntries + 1 /\ a.recData = dir.recData + ob[i].count
  <2>1. /\ a.next = n + 1 /\ a.data = dir.data + len
        /\ a.objects[n] = [status |-> "USED", meta |-> meta, start |-> dir.data, count |-> len]
        /\ \A i \in Entry : i # n =>
              \/ a.objects[i] = ob[i]
              \/ i \in old /\ a.objects[i].status = "DATA_BAD"
    BY <1>0, <1>1, <1>2, AppendedIs DEF old
  <2>2. CASE old = {}
    <3>1. a.recEntries = dir.recEntries /\ a.recData = dir.recData
      BY <1>0, <2>2, AppendedCounts DEF old
    <3> QED BY <2>1, <2>2, <3>1
  <2>3. CASE old # {}
    <3>1. PICK k : k = Min(old)
      OBVIOUS
    <3>2. k \in old
      <4>1. old \in SUBSET Nat
        BY <1>4, <1>9
      <4> QED BY <2>3, <3>1, <4>1, MinMeans
    <3>3. PICK new : new = [status |-> "USED", meta |-> meta, start |-> dir.data, count |-> len]
      OBVIOUS
    <3>4. /\ a.objects = [[ob EXCEPT ![n] = new] EXCEPT ![k].status = "DATA_BAD"]
          /\ a.recEntries = dir.recEntries + 1 /\ a.recData = dir.recData + ob[k].count
      BY <1>0, <1>1, <1>2, <2>3, <3>1, <3>3, AppendedCounts DEF old
    <3>5. k \in Entry /\ k # n
      BY <1>4, <1>9, <3>2
    <3>6. a.objects[k] = Struck(ob[k])
      BY <3>4, <3>5 DEF Struck
    <3>7. \A i \in Entry : i # n /\ i # k => a.objects[i] = ob[i]
      BY <3>4, <3>5
    <3> QED BY <1>13, <2>1, <2>3, <3>2, <3>4, <3>6, <3>7
  <2> QED BY <2>2, <2>3
<1>16. \A i \in 1..(n - 1) :
         a.objects[i] = IF Overridden(p, n + 1, i)' THEN Struck(ReadObject(obj'[p][i]))
                        ELSE ReadObject(obj'[p][i])
  <2> SUFFICES ASSUME NEW i \in 1..(n - 1)
               PROVE  a.objects[i] = IF Overridden(p, n + 1, i)' THEN Struck(ReadObject(obj'[p][i]))
                                     ELSE ReadObject(obj'[p][i])
    OBVIOUS
  <2>1. i \in Entry /\ i # n /\ obj'[p][i] = obj[p][i]
    BY <1>4, <1>8
  <2>2. CASE i \in old
    <3>1. ~Overridden(p, n, i)
      BY <1>12, <2>2
    <3>2. ob[i] = ReadObject(obj[p][i])
      BY <1>5, <3>1
    <3> QED BY <1>14, <1>15, <2>1, <2>2, <3>2
  <2>3. CASE i \notin old
    BY <1>5, <1>14, <1>15, <2>1, <2>3
  <2> QED BY <2>2, <2>3
<1>17. Mirrors(a, p)'
  <2> SUFFICES ASSUME NEW i \in Entry
               PROVE  a.objects[i] = IF i >= n + 1 THEN NoObject
                                     ELSE IF Overridden(p, n + 1, i)'
                                          THEN Struck(ReadObject(obj'[p][i]))
                                     ELSE ReadObject(obj'[p][i])
    BY <1>15 DEF Mirrors
  <2>1. CASE i \in 1..(n - 1)
    BY <1>4, <1>16, <2>1
  <2>2. CASE i = n
    <3>1. ~Overridden(p, n + 1, n)'
      <4>1. \A j \in 1..((n + 1) - 1) : ~(j > n)
        BY <1>4
      <4> QED BY <4>1 DEF Overridden
    <3> QED BY <1>4, <1>6, <1>15, <2>2, <3>1
  <2>3. CASE i >= n + 1
    <3>1. i \notin old /\ i # n /\ ob[i] = NoObject
      BY <1>4, <1>5, <1>9, <2>3
    <3> QED BY <1>15, <2>3, <3>1
  <2> QED BY <1>4, <2>1, <2>2, <2>3
\* The counters.
<1> DEFINE w == Weights(p)
           v == Weights(p)'
<1>18. /\ \A i \in Entry : w[i] \in Nat
       /\ \A i \in 1..(n - 1) : v[i] = w[i]
       /\ v[n] = len
  <2>1. \A i \in Entry : w[i] \in Nat
    BY <1>0, WeightIs
  <2>2. \A i \in 1..(n - 1) : v[i] = w[i]
    BY <1>4, <1>8 DEF Weights, Sized
  <2>3. obj'[p][n].start # Blank /\ obj'[p][n].meta = meta
    BY <1>0, <1>7, WordAssumption
  <2>4. v[n] = UnitsOf[meta.val]
    BY <2>3 DEF Weights, Sized
  <2>5. len = UnitsOf[meta.val]
    BY <1>1 DEF Length
  <2> QED BY <2>1, <2>2, <2>4, <2>5
<1> HIDE DEF w, v
<1>19. a.data = Total(v, 1..n)
  <2> DEFINE S == 1..(n - 1)
  <2>1. IsFiniteSet(S) /\ n \notin S /\ 1..n = S \union {n} /\ \A i \in S : v[i] = w[i] /\ v[i] \in Nat
    BY <1>4, <1>18
  <2>2. dir.data = Total(w, S)
    BY <1>1 DEF Tallies, w
  <2> HIDE DEF S
  <2>3. Total(v, S) = Total(w, S)
    BY <2>1, TotalSame
  <2>4. Total(v, S \union {n}) = Total(v, S) + v[n]
    BY <1>18, <2>1, TotalIn
  <2> QED BY <1>15, <1>18, <2>1, <2>2, <2>3, <2>4
<1>20. /\ Dead(a) = Dead(dir) \union old /\ Dead(dir) \intersect old = {}
       /\ Dead(dir) \subseteq 1..(n - 1) /\ IsFiniteSet(Dead(dir))
  <2>1. \A i : i \in Dead(dir) <=> i \in 1..(n - 1) /\ ob[i].status # "USED"
    BY <1>1, <1>2 DEF Dead
  <2>2. \A i : i \in Dead(a) <=> i \in 1..n /\ a.objects[i].status # "USED"
    BY <1>4, <1>15 DEF Dead
  <2>3. a.objects[n].status = "USED"
    BY <1>15
  <2>4. \A i \in 1..(n - 1) : a.objects[i].status # "USED" <=> ob[i].status # "USED" \/ i \in old
    <3> SUFFICES ASSUME NEW i \in 1..(n - 1)
                 PROVE  a.objects[i].status # "USED" <=> ob[i].status # "USED" \/ i \in old
      OBVIOUS
    <3>1. i \in Entry /\ i # n /\ ob[i] \in MemObject
      BY <1>4
    <3>2. CASE i \in old
      <4>1. a.objects[i].status = "DATA_BAD"
        BY <1>15, <3>1, <3>2, StruckIs
      <4> QED BY <3>2, <4>1
    <3>3. CASE i \notin old
      BY <1>15, <3>1, <3>3
    <3> QED BY <3>2, <3>3
  <2>5. Dead(a) = Dead(dir) \union old
    BY <1>4, <1>9, <2>1, <2>2, <2>3, <2>4
  <2>6. Dead(dir) \intersect old = {} /\ Dead(dir) \subseteq 1..(n - 1)
    BY <1>9, <2>1
  <2>7. IsFiniteSet(Dead(dir))
    BY <1>4, <2>6, FS_Subset
  <2> QED BY <2>5, <2>6, <2>7
<1> DEFINE D == Dead(dir)
<1>21. /\ IsFiniteSet(D) /\ (\A i \in D : v[i] = w[i] /\ v[i] \in Nat)
       /\ dir.recEntries = Cardinality(D) /\ dir.recData = Total(w, D)
       /\ Cardinality(D) \in Nat
  <2>1. \A i \in D : i \in 1..(n - 1) /\ i \in Entry
    BY <1>4, <1>20
  <2>2. Cardinality(D) \in Nat
    BY <1>20, FS_CardinalityType
  <2> QED BY <1>18, <1>20, <2>1, <2>2 DEF Tallies, w
<1>22. Total(v, D) = Total(w, D)
  <2> HIDE DEF D
  <2> QED BY <1>21, TotalSame
<1>23. a.recEntries = Cardinality(Dead(a)) /\ a.recData = Total(v, Dead(a))
  <2>1. CASE old = {}
    <3>1. Dead(a) = D
      BY <1>20, <2>1
    <3> QED BY <1>15, <1>21, <1>22, <2>1, <3>1
  <2>2. CASE old # {}
    <3>1. PICK k \in old : TRUE
      BY <2>2
    <3>2. Dead(a) = D \union {k} /\ k \notin D
      BY <1>13, <1>20, <3>1
    <3>3. v[k] = ob[k].count /\ v[k] \in Nat
      <4>1. k \in 1..(n - 1) /\ Whole(p, k) /\ ~Overridden(p, n, k) /\ k \in Entry
        BY <1>4, <1>9, <1>12, <3>1
      <4>2. ob[k] = ReadObject(obj[p][k])
        BY <1>5, <4>1
      <4>3. ReadObject(obj[p][k]).count = w[k]
        BY <1>10, <4>1 DEF w
      <4> QED BY <1>18, <4>1, <4>2, <4>3
    <3> HIDE DEF D
    <3>4. Total(v, D \union {k}) = Total(v, D) + v[k]
      BY <1>21, <3>2, <3>3, TotalIn
    <3>5. Cardinality(D \union {k}) = Cardinality(D) + 1
      BY <1>21, <3>2, FS_AddElement
    <3> QED BY <1>15, <1>21, <1>22, <3>1, <3>2, <3>3, <3>4, <3>5
  <2> QED BY <2>1, <2>2
<1>24. Tallies(a, p)'
  BY <1>4, <1>15, <1>19, <1>23 DEF Tallies, v
<1> QED BY <1>17, <1>24

\* Reservations leave no gap in any partition that counts, nor in the one that
\* a destroy copies to.
TiledInv ==
  /\ \A p \in Part : HdrStatus(p) = "USED" => Tiled(p)
  /\ pc \in ObjPc \union {"dst_count"} /\ op.kind = "destroy" => Tiled(Other(active))

\* The directory in use tells of its partition as it is.
DirTally == Running /\ ~dirBad => Mirrors(dir, active) /\ Tallies(dir, active)

\* The objects to keep before entry src, and what the new partition holds once
\* they are copied: each of them once, without a gap.
Passed(src) == {j \in 1..(src - 1) : Kept(j)}
CopiedOnce(q, p, src, n, size) ==
  /\ n = Cardinality(Passed(src)) + 1
  /\ size = Total(Weights(p), Passed(src))
  /\ size = Total(Weights(q), 1..(n - 1))
  /\ \A i \in 1..(n - 1) :
       /\ Whole(q, i)
       /\ \E j \in Passed(src) : obj[q][i].meta = dir.objects[j].meta
  /\ \A i, k \in 1..(n - 1) : i # k => obj[q][i].meta.id # obj[q][k].meta.id
CopyTally ==
  /\ pc \in ObjPc /\ op.kind = "destroy" =>
       /\ cp.src \in Entry /\ cp.entry \in Entry /\ Kept(cp.src)
       /\ CopiedOnce(Other(active), active, cp.src, cp.entry, cp.data)
  /\ pc \in {"dst_count", "dst_reread"} =>
       /\ cp.src = ObjectCount + 1 /\ cp.entry \in Slot
       /\ CopiedOnce(Other(active), active, cp.src, cp.entry, cp.data)
       /\ \A i \in Entry : i >= cp.entry => obj[Other(active)][i] = BlankObj

TallyInv == TiledInv /\ DirTally /\ CopyTally

\* Where an entry's data goes is where all that is reserved before it ends.
LEMMA TargetTally ==
  ASSUME HeaderInv, FlashInv, TallyInv, pc \in ObjPc
  PROVE  Target.start = Total(Weights(Target.part), 1..(Target.entry - 1))
<1>1. Running /\ ~dirBad /\ op \in Ops
  BY TargetFacts
<1>2. CASE op.kind = "add"
  <2>1. Target.part = active /\ Target.entry = dir.next /\ Target.start = dir.data
    BY <1>2, TargetIs
  <2> QED BY <1>1, <2>1 DEF TallyInv, DirTally, Tallies
<1>3. CASE op.kind # "add"
  <2>1. Target.part = Other(active) /\ Target.entry = cp.entry /\ Target.start = cp.data
    BY <1>3, TargetIs
  <2>2. op.kind = "destroy"
    BY <1>1, <1>3, KindFacts
  <2> QED BY <2>1, <2>2 DEF TallyInv, CopyTally, CopiedOnce
<1> QED BY <1>2, <1>3

\* A partition without reservations has no gap.
LEMMA EmptyTiled ==
  ASSUME NEW p \in Part, Empty(p)
  PROVE  Tiled(p)
<1>1. \A i \in Entry : ~Sized(p, i)
  BY DEF Empty, BlankObj, Sized
<1> QED BY <1>1 DEF Tiled

\* Writing the words of an entry leaves none ...
LEMMA TiledWords ==
  ASSUME HeaderInv, FlashInv, TallyInv, pc \in ObjPc \ {"obj_data"}, NEW w \in {Words(pc), TornWords},
         obj' = [obj EXCEPT ![Target.part][Target.entry] = w], NEW p \in Part, Tiled(p)
  PROVE  Tiled(p)'
<1>1. PICK q \in Part, e \in Entry : q = Target.part /\ e = Target.entry
  BY TargetFacts
<1>2. /\ FlashTypeOK
      /\ \A i \in Entry : i > e => obj[q][i] = BlankObj
      /\ Target.start = Total(Weights(q), 1..(e - 1))
  BY <1>1, TargetTally DEF FlashInv, TargetInv
<1>3. w.start \in {Blank, Target.start}
  <2>1. TornWords.start = Blank
    BY DEF TornWords
  <2>2. Words(pc).start \in {Blank, Target.start}
    BY DEF Words
  <2> QED BY <2>1, <2>2
<1>4. /\ obj'[q][e] = w
      /\ \A i \in Entry : i # e => obj'[q][i] = obj[q][i]
      /\ \A r \in Part : r # q => obj'[r] = obj[r]
  BY <1>1, <1>2 DEF FlashTypeOK
<1>5. CASE p # q
  BY <1>4, <1>5 DEF Tiled, Weights, Sized
<1>6. CASE p = q
  <2> SUFFICES ASSUME NEW i \in Entry, Sized(q, i)'
               PROVE  obj'[q][i].start = Total(Weights(q)', 1..(i - 1))
    BY <1>6 DEF Tiled
  <2>1. i <= e
    <3>1. CASE i > e
      <4>1. obj'[q][i] = BlankObj
        BY <1>2, <1>4, <3>1, Indices
      <4> QED BY <4>1 DEF Sized, BlankObj
    <3> QED BY <3>1, Indices
  <2>2. \A j \in 1..(i - 1) : j \in Entry /\ j # e
    BY <2>1, Indices
  <2> DEFINE S == 1..(i - 1)
             u == Weights(q)
             v == Weights(q)'
  <2>3. IsFiniteSet(S) /\ \A j \in S : u[j] = v[j]
    <3>1. \A j \in S : u[j] = v[j]
      BY <1>4, <2>2 DEF Weights, Sized
    <3>2. IsFiniteSet(S)
      BY EntriesFinite, Indices
    <3> QED BY <3>1, <3>2
  <2> HIDE DEF S, u, v
  <2>4. Total(u, S) = Total(v, S)
    BY <2>3, TotalSame
  <2>5. obj'[q][i].start = Total(u, S)
    <3>1. CASE i = e
      BY <1>2, <1>3, <1>4, <3>1 DEF Sized, S, u
    <3>2. CASE i # e
      <4>1. obj'[q][i] = obj[q][i]
        BY <1>4, <3>2
      <4>2. Sized(q, i)
        BY <4>1 DEF Sized
      <4> QED BY <1>6, <4>1, <4>2 DEF Tiled, S, u
    <3> QED BY <3>1, <3>2
  <2> QED BY <2>4, <2>5 DEF S, v
<1> QED BY <1>5, <1>6

\* ... and so does every driver call, whole or cut short.
LEMMA TiledFlash ==
  ASSUME HeaderInv, FlashInv, TallyInv, Next, NEW p \in Part, Tiled(p)
  PROVE  Tiled(p)'
<1>0. FlashTypeOK /\ active \in Part /\ Other(active) \in Part
  BY PartFacts DEF FlashInv, HeaderInv, HeaderTypeOK, ControlTypeOK
<1>1. CASE obj'[p] = obj[p]
  BY <1>1 DEF Tiled, Weights, Sized
<1>2. CASE \E q \in Part, areas \in PartialErases : Erase(q, areas)
  <2>1. \/ obj'[p] = obj[p]
        \/ \A i \in Entry : obj'[p][i] = BlankObj
    BY <1>0, <1>2 DEF Erase, FlashTypeOK
  <2>2. CASE \A i \in Entry : obj'[p][i] = BlankObj
    <3>1. \A i \in Entry : ~Sized(p, i)'
      BY <2>2 DEF BlankObj, Sized
    <3> QED BY <3>1 DEF Tiled
  <2> QED BY <1>1, <2>1, <2>2
<1>3. CASE pc \in ObjPc /\ Ready /\ (Write \/ PartialWrite)
  <2>1. CASE pc = "obj_data"
    <3>1. obj' = obj
      BY <1>3, <2>1 DEF Write, PartialWrite, ProgramData, flash
    <3> QED BY <1>1, <3>1
  <2>2. CASE pc # "obj_data"
    <3>1. \/ UNCHANGED flash
          \/ obj' = [obj EXCEPT ![Target.part][Target.entry] = Words(pc)]
          \/ obj' = [obj EXCEPT ![Target.part][Target.entry] = TornWords]
      BY <1>3, <2>2, ObjWrite, ObjTorn
    <3> QED BY <1>1, <1>3, <2>2, <3>1, TiledWords DEF flash
  <2> QED BY <2>1, <2>2
<1>4. CASE pc \notin ObjPc /\ (Write \/ PartialWrite)
  <2>1. \/ \E q \in Part, areas \in PartialErases : Erase(q, areas)
        \/ obj' = obj
    BY <1>0, <1>4 DEF Write, PartialWrite, ObjPc, PartialErases, ProgramHdr, ProgramHdrEpoch,
       ProgramHdrStart, ProgramHdrCount, flash
  <2> QED BY <1>1, <1>2, <2>1
<1>5. \A x \in ErasePc : x \notin ObjPc
  BY DEF ErasePc, ObjPc
<1> QED BY <1>1, <1>3, <1>4, <1>5, Flashes DEF flash

\* So a partition that counts has no gap, nor has the one being copied to.
LEMMA TiledStep ==
  ASSUME HeaderInv, HeaderInv', FlashInv, TallyInv, Next
  PROVE  TiledInv'
<1>1. \A p \in Part : Tiled(p) => Tiled(p)'
  BY TiledFlash
<1>2. active \in Part /\ Other(active) \in Part
  BY PartFacts DEF HeaderInv, HeaderTypeOK, ControlTypeOK
<1>3. ASSUME NEW p \in Part, HdrStatus(p)' = "USED"
      PROVE  Tiled(p)'
  <2>1. \/ HdrStatus(p) = "USED"
        \/ pc = "init_count" /\ p = active
        \/ pc = "dst_count" /\ p = Other(active)
    BY <1>3, Flashes, UsedGrows
  <2>2. pc = "init_count" => active = 0 /\ Empty(0)
    BY DEF HeaderInv, FormatProgress, InitPc, FlashInv, SoundInv
  <2>3. pc = "dst_count" => Tiled(Other(active))
    BY KindFacts DEF HeaderInv, OpProgress, DstPc, TallyInv, TiledInv
  <2>4. Tiled(p)
    BY <1>2, <2>1, <2>2, <2>3, EmptyTiled DEF TallyInv, TiledInv
  <2> QED BY <1>1, <2>4
<1>4. ASSUME pc' \in ObjPc \union {"dst_count"}, op'.kind = "destroy"
      PROVE  Tiled(Other(active))'
  <2>1. ~\E id \in Id, v \in Val : AddObject(id, v)
    BY <1>4 DEF AddObject
  <2>2. /\ active' = active
        /\ \/ pc = "dst_start"
           \/ pc \in ObjPc /\ op.kind = "destroy"
    <3>1. CASE DstStep /\ pc = "dst_start"
      BY <3>1 DEF DstStep, ram
    <3>2. CASE ObjStep
      BY <1>4, <3>2 DEF ObjStep, ram
    <3>3. CASE ObjCount /\ op.kind # "add"
      BY <1>4, <3>3 DEF ObjCount, ObjPc
    <3> QED BY <1>4, <2>1, <3>1, <3>2, <3>3, Enters
  <2>3. Tiled(Other(active))
    BY <1>2, <2>2, EmptyTiled DEF FlashInv, SoundInv, TallyInv, TiledInv
  <2>4. PICK q \in Part : q = Other(active) /\ q = Other(active')
    BY <1>2, <2>2
  <2>5. Tiled(q)'
    BY <1>1, <2>3, <2>4
  <2> QED BY <2>4, <2>5 DEF Tiled, Weights, Sized, Other
<1> QED BY <1>3, <1>4 DEF TiledInv

\* The directory goes on to tell of its partition.
LEMMA DirTallyStep ==
  ASSUME HeaderInv, HeaderInv', FlashInv, TallyInv, Next
  PROVE  DirTally'
<1>1. FlashTypeOK /\ DirTyped /\ active \in Part /\ dir.next \in Slot
  BY DEF FlashInv, HeaderInv, HeaderTypeOK, ControlTypeOK, DirTyped
<1>2. CASE /\ dir' = dir /\ active' = active /\ dirBad' = dirBad /\ Running /\ ~dirBad
           /\ \A i \in Entry : i # dir.next => obj'[active][i] = obj[active][i]
  <2>0. PICK p \in Part : p = active
    BY <1>1
  <2>1. PICK d : d = dir /\ p = active
    BY <2>0
  <2>2. \A i \in 1..(d.next - 1) : obj'[p][i] = obj[p][i]
    <3>1. \A i \in 1..(d.next - 1) : i \in Entry /\ i # d.next
      BY <1>1, <2>1, Indices DEF Entry, Slot
    <3> QED BY <1>2, <2>1, <3>1
  <2>3. Mirrors(d, p)' /\ Tallies(d, p)'
    BY <1>1, <1>2, <2>1, <2>2, TalliesKept DEF TallyInv, DirTally
  <2>4. d = dir' /\ p = active'
    BY <1>2, <2>1
  <2> QED BY <2>3, <2>4 DEF DirTally, Mirrors, Tallies
<1>3. CASE \E p \in Part : /\ Sound(p) /\ (HdrStatus(p) = "USED" \/ Empty(p))
                           /\ dir' = ReadDirectory(p) /\ obj' = obj /\ active' = p /\ ~dirBad'
  <2>1. PICK p \in Part : /\ Sound(p) /\ (HdrStatus(p) = "USED" \/ Empty(p))
                          /\ dir' = ReadDirectory(p) /\ obj' = obj /\ active' = p
    BY <1>3
  <2>2. Tiled(p)
    BY <2>1, EmptyTiled DEF TallyInv, TiledInv
  <2>3. PICK d : d = ReadDirectory(p)
    OBVIOUS
  <2>4. Mirrors(d, p) /\ Tallies(d, p) /\ d.next \in Slot
    BY <1>1, <2>1, <2>2, <2>3, ReadTallies, DirectoryRead
  <2>5. Mirrors(d, p)' /\ Tallies(d, p)'
    BY <2>1, <2>4, TalliesKept
  <2>6. d = dir' /\ p = active'
    BY <2>1, <2>3
  <2> QED BY <2>5, <2>6 DEF DirTally, Mirrors, Tallies
<1>4. CASE /\ pc = "obj_count" /\ op.kind = "add" /\ Ready /\ Write
           /\ dir' = Appended /\ active' = active /\ ~dirBad'
  <2>0. PICK p \in Part : p = active
    BY <1>1
  <2>1. PICK a : a = Appended /\ p = active
    BY <2>0
  <2>2. Running /\ ~dirBad
    BY <1>4, TargetFacts DEF ObjPc
  <2>3. Mirrors(a, p)' /\ Tallies(a, p)'
    BY <1>4, <2>1, <2>2, TalliesAppended DEF TallyInv, DirTally
  <2>4. a = dir' /\ p = active'
    BY <1>4, <2>1
  <2> QED BY <2>3, <2>4 DEF DirTally, Mirrors, Tallies
<1>5. CASE ~Running' \/ dirBad'
  BY <1>5 DEF DirTally
<1> QED BY <1>2, <1>3, <1>4, <1>5, DirMoves

\* The directory names each id once.
LEMMA UsedOnce ==
  ASSUME FlashTypeOK, DirInv, DirTally, Running, ~dirBad, active \in Part, Sound(active),
         DirTyped, NEW i \in Entry, NEW k \in Entry, i # k,
         dir.objects[i].status = "USED", dir.objects[k].status = "USED"
  PROVE  dir.objects[i].meta.id # dir.objects[k].meta.id
<1>1. ASSUME NEW j \in Entry, NEW l \in Entry, j < l, dir.objects[j].status = "USED",
             dir.objects[l].status = "USED"
      PROVE  dir.objects[j].meta.id # dir.objects[l].meta.id
  <2>1. /\ Whole(active, j) /\ Whole(active, l) /\ j < dir.next /\ l < dir.next
        /\ dir.objects[j].meta = obj[active][j].meta
        /\ dir.objects[l].meta = obj[active][l].meta
    BY <1>1, UsedEntry
  <2>2. dir.next \in Nat /\ j \in Nat /\ l \in Nat /\ l >= 1 /\ dir.next \in Slot
    BY Indices DEF DirTyped, Slot
  <2>3. ~Overridden(active, dir.next, j)
    <3> SUFFICES ASSUME Overridden(active, dir.next, j) PROVE FALSE
      OBVIOUS
    <3>1. ~(j >= dir.next)
      BY <2>1, <2>2
    <3>2. dir.objects[j] = Struck(ReadObject(obj[active][j]))
      BY <3>1 DEF DirTally, Mirrors
    <3>3. PICK r : r = ReadObject(obj[active][j])
      OBVIOUS
    <3>4. r \in MemObject
      BY <3>3, ReadIs
    <3>5. Struck(r).status = "DATA_BAD"
      BY <3>4, StruckIs
    <3> QED BY <1>1, <3>2, <3>3, <3>5
  <2>4. l \in 1..(dir.next - 1) /\ l > j
    BY <1>1, <2>1, <2>2
  <2> QED BY <2>1, <2>3, <2>4 DEF Overridden
<1>2. i < k \/ k < i
  BY Indices
<1> QED BY <1>1, <1>2

\* The objects passed.
LEMMA PassedIs ==
  /\ \A s \in Slot : Passed(s) \subseteq Entry /\ IsFiniteSet(Passed(s))
                     /\ Cardinality(Passed(s)) \in Nat
  /\ \A s \in Entry : s \notin Passed(s)
  /\ \A s \in Entry : s \in Slot
<1>1. \A s \in Slot : Passed(s) \subseteq Entry
  BY EntriesFinite DEF Passed
<1>2. \A s \in Slot : IsFiniteSet(Passed(s))
  BY <1>1, EntriesFinite
<1>3. \A s \in Slot : Cardinality(Passed(s)) \in Nat
  BY <1>2, FS_CardinalityType
<1>4. \A s \in Entry : s \notin Passed(s)
  BY Indices DEF Passed
<1>5. \A s \in Entry : s \in Slot
  BY Indices DEF Entry, Slot
<1> QED BY <1>1, <1>2, <1>3, <1>4, <1>5

\* What was copied stays copied while its entries stay the same ...
LEMMA CopiedOnceKept ==
  ASSUME NEW q \in Part, NEW p \in Part, NEW s, NEW n \in Slot, NEW size,
         CopiedOnce(q, p, s, n, size), dir' = dir, op' = op, obj'[p] = obj[p],
         \A i \in 1..(n - 1) : obj'[q][i] = obj[q][i]
  PROVE  CopiedOnce(q, p, s, n, size)'
<1>1. Passed(s)' = Passed(s) /\ Weights(p)' = Weights(p)
  BY DEF Passed, Kept, Weights, Sized
<1> DEFINE S == 1..(n - 1)
           u == Weights(q)
           v == Weights(q)'
<1>2. IsFiniteSet(S) /\ \A i \in S : u[i] = v[i]
  <2>1. IsFiniteSet(S) /\ S \subseteq Entry
    BY EntriesFinite
  <2>2. \A i \in S : u[i] = v[i]
    BY <2>1 DEF Weights, Sized
  <2> QED BY <2>1, <2>2
<1> HIDE DEF S, u, v
<1>3. Total(u, S) = Total(v, S)
  BY <1>2, TotalSame
<1>4. size = Total(Weights(q)', 1..(n - 1))
  BY <1>3 DEF CopiedOnce, S, u, v
<1>5. /\ \A i \in 1..(n - 1) :
           /\ Whole(q, i)'
           /\ \E j \in Passed(s)' : obj'[q][i].meta = dir'.objects[j].meta
      /\ \A i, k \in 1..(n - 1) : i # k => obj'[q][i].meta.id # obj'[q][k].meta.id
  BY <1>1 DEF CopiedOnce, Whole
<1>6. n = Cardinality(Passed(s)') + 1 /\ size = Total(Weights(p)', Passed(s)')
  BY <1>1 DEF CopiedOnce
<1> QED BY <1>4, <1>5, <1>6 DEF CopiedOnce

\* ... and one more object is copied with the last word of its entry.
LEMMA CopiedOnceMore ==
  ASSUME FlashTypeOK, DirInv, DirTally, Running, ~dirBad, DirTyped,
         NEW q \in Part, NEW p \in Part, p = active, Sound(p), Sound(q),
         NEW s \in Entry, NEW e \in Entry, NEW t \in Slot, NEW size, NEW len \in Nat,
         CopiedOnce(q, p, s, e, size), Kept(s), dir' = dir, op' = op, obj'[p] = obj[p],
         s + 1 <= t, \A j \in Entry : s + 1 <= j /\ j < t => ~Kept(j),
         \A i \in 1..(e - 1) : obj'[q][i] = obj[q][i],
         obj'[q][e].count # Blank, obj'[q][e].start # Blank,
         obj'[q][e].meta = dir.objects[s].meta, len = UnitsOf[dir.objects[s].meta.val]
  PROVE  CopiedOnce(q, p, t, e + 1, size + len)'
<1>0. /\ e \in Nat /\ e >= 1 /\ (e + 1) - 1 = e /\ e \in Slot /\ s \in Slot
      /\ e \notin 1..(e - 1) /\ 1..e = (1..(e - 1)) \union {e} /\ IsFiniteSet(1..(e - 1))
      /\ \A i \in 1..(e - 1) : i \in Entry
  <2>1. e \in Nat /\ e >= 1 /\ e \in Slot /\ s \in Slot
    BY Indices, PassedIs
  <2>2. IsFiniteSet(1..(e - 1)) /\ \A i \in 1..(e - 1) : i \in Entry
    BY <2>1, EntriesFinite
  <2> QED BY <2>1, <2>2
<1>1. Passed(t) = Passed(s) \union {s} /\ s \notin Passed(s)
  <2>1. s \in Nat /\ s >= 1 /\ t \in Nat /\ 1..(t - 1) \subseteq Entry
    BY Indices, EntriesFinite
  <2>2. \A j \in 1..(t - 1) : j = s \/ j \in 1..(s - 1) \/ (j \in Entry /\ s + 1 <= j /\ j < t)
    BY <2>1
  <2>3. s \in 1..(t - 1) /\ \A j \in 1..(s - 1) : j \in 1..(t - 1)
    BY <2>1
  <2>4. \A j : j \in Passed(t) <=> j \in 1..(t - 1) /\ Kept(j)
    BY DEF Passed
  <2>5. \A j : j \in Passed(s) <=> j \in 1..(s - 1) /\ Kept(j)
    BY DEF Passed
  <2>6. Passed(t) = Passed(s) \union {s}
    BY <2>2, <2>3, <2>4, <2>5
  <2> QED BY <2>6, PassedIs
<1>2. Passed(t)' = Passed(s) \union {s} /\ Weights(p)' = Weights(p)
  <2>1. Passed(t)' = Passed(t)
    BY DEF Passed, Kept
  <2>2. Weights(p)' = Weights(p)
    BY DEF Weights, Sized
  <2> QED BY <1>1, <2>1, <2>2
<1> DEFINE D == Passed(s)
           w == Weights(p)
           u == Weights(q)
           v == Weights(q)'
           S == 1..(e - 1)
<1>3. /\ IsFiniteSet(D) /\ Cardinality(D) \in Nat
      /\ \A j \in D : w[j] \in Nat
      /\ w[s] = len
  <2>1. IsFiniteSet(D) /\ Cardinality(D) \in Nat /\ D \subseteq Entry
    BY <1>0, PassedIs
  <2>2. \A j \in Entry : w[j] \in Nat
    BY WeightIs
  <2>3. Sized(p, s) /\ obj[p][s].meta = dir.objects[s].meta
    BY UsedEntry DEF Kept
  <2>4. w[s] = len
    BY <2>3, WeightIs
  <2> QED BY <2>1, <2>2, <2>4
<1>4. /\ IsFiniteSet(S) /\ \A i \in S : u[i] = v[i] /\ v[i] \in Nat
      /\ e \notin S /\ v[e] = len
  <2>1. \A i \in S : u[i] = v[i]
    BY <1>0 DEF Weights, Sized
  <2>2. \A i \in S : u[i] \in Nat
    BY <1>0, WeightIs
  <2>3. v[e] = len
    BY DEF Weights, Sized
  <2> QED BY <1>0, <2>1, <2>2, <2>3
<1>5. /\ e = Cardinality(D) + 1 /\ size = Total(w, D) /\ size = Total(u, S)
      /\ \A i \in S : Whole(q, i) /\ \E j \in D : obj[q][i].meta = dir.objects[j].meta
      /\ \A i, k \in S : i # k => obj[q][i].meta.id # obj[q][k].meta.id
  BY DEF CopiedOnce
<1> HIDE DEF D, w, u, v, S
<1>6. /\ e + 1 = Cardinality(D \union {s}) + 1
      /\ size + len = Total(w, D \union {s})
      /\ size + len = Total(v, S \union {e})
  <2>1. Cardinality(D \union {s}) = Cardinality(D) + 1
    BY <1>1, <1>3, FS_AddElement DEF D
  <2>2. Total(w, D \union {s}) = Total(w, D) + w[s]
    BY <1>1, <1>3, TotalIn DEF D
  <2>3. Total(v, S) = Total(u, S)
    BY <1>4, TotalSame
  <2>4. Total(v, S \union {e}) = Total(v, S) + v[e]
    BY <1>4, TotalIn
  <2> QED BY <1>3, <1>4, <1>5, <2>1, <2>2, <2>3, <2>4
<1>7. \A i \in S \union {e} :
        /\ Whole(q, i)'
        /\ \E j \in D \union {s} : obj'[q][i].meta = dir.objects[j].meta
  <2> SUFFICES ASSUME NEW i \in S \union {e}
               PROVE  /\ Whole(q, i)'
                      /\ \E j \in D \union {s} : obj'[q][i].meta = dir.objects[j].meta
    OBVIOUS
  <2>1. CASE i = e
    BY <2>1 DEF Whole
  <2>2. CASE i \in S
    <3>1. obj'[q][i] = obj[q][i]
      BY <2>2 DEF S
    <3>2. Whole(q, i) /\ \E j \in D : obj[q][i].meta = dir.objects[j].meta
      BY <1>5, <2>2
    <3> QED BY <3>1, <3>2 DEF Whole
  <2> QED BY <2>1, <2>2
<1>8. \A i \in S : obj'[q][i].meta.id # obj'[q][e].meta.id
  <2> SUFFICES ASSUME NEW i \in S
               PROVE  obj[q][i].meta.id # dir.objects[s].meta.id
    BY DEF S
  <2>1. PICK j \in D : obj[q][i].meta = dir.objects[j].meta
    BY <1>5
  <2>2. j \in Entry /\ Kept(j) /\ j # s
    BY <1>0, <1>1, <2>1, PassedIs DEF D, Passed
  <2>3. dir.objects[j].meta.id # dir.objects[s].meta.id
    BY <2>2, UsedOnce DEF Kept
  <2> QED BY <2>1, <2>3
<1>9. \A i, k \in S \union {e} : i # k => obj'[q][i].meta.id # obj'[q][k].meta.id
  <2> SUFFICES ASSUME NEW i \in S \union {e}, NEW k \in S \union {e}, i # k
               PROVE  obj'[q][i].meta.id # obj'[q][k].meta.id
    OBVIOUS
  <2>1. CASE i = e \/ k = e
    BY <1>8, <2>1
  <2>2. CASE i \in S /\ k \in S
    <3>1. obj'[q][i] = obj[q][i] /\ obj'[q][k] = obj[q][k]
      BY <2>2 DEF S
    <3> QED BY <1>5, <2>2, <3>1
  <2> QED BY <2>1, <2>2
<1>10. /\ e + 1 = Cardinality(Passed(t)') + 1
       /\ size + len = Total(Weights(p)', Passed(t)')
  BY <1>2, <1>6 DEF D, w
<1>11. size + len = Total(Weights(q)', 1..((e + 1) - 1))
  BY <1>0, <1>6 DEF S, v
<1>12. /\ \A i \in 1..((e + 1) - 1) :
            /\ Whole(q, i)'
            /\ \E j \in Passed(t)' : obj'[q][i].meta = dir'.objects[j].meta
       /\ \A i, k \in 1..((e + 1) - 1) : i # k => obj'[q][i].meta.id # obj'[q][k].meta.id
  <2>1. 1..((e + 1) - 1) = S \union {e} /\ Passed(t)' = D \union {s}
    BY <1>0, <1>2 DEF S, D
  <2> QED BY <1>7, <1>9, <2>1
<1> QED BY <1>10, <1>11, <1>12 DEF CopiedOnce

\* What was copied takes no more entries than were passed.
LEMMA CopiedFits ==
  ASSUME NEW s \in Slot, NEW n, n = Cardinality(Passed(s)) + 1
  PROVE  n \in Slot /\ n <= s
<1>1. /\ s \in Nat /\ s >= 1 /\ s <= ObjectCount + 1 /\ ObjectCount \in Nat
      /\ IsFiniteSet(1..(s - 1)) /\ Passed(s) \subseteq 1..(s - 1)
      /\ Cardinality(Passed(s)) \in Nat
  <2>1. s \in Nat /\ s >= 1 /\ s <= ObjectCount + 1 /\ ObjectCount \in Nat
    BY Indices DEF Slot
  <2>2. Passed(s) \subseteq 1..(s - 1)
    BY DEF Passed
  <2> QED BY <2>1, <2>2, EntriesFinite, PassedIs
<1>2. Cardinality(1..(s - 1)) = s - 1
  BY <1>1, FS_Interval
<1>3. Cardinality(Passed(s)) <= s - 1
  BY <1>1, <1>2, FS_Subset
<1> QED BY <1>1, <1>3 DEF Slot

\* At first nothing is copied.
LEMMA CopiedOnceNone ==
  ASSUME NEW q \in Part, NEW p \in Part, NEW s \in Slot, dir' = dir, op' = op,
         \A j \in Entry : j < s => ~Kept(j)
  PROVE  CopiedOnce(q, p, s, 1, 0)'
<1>1. Passed(s)' = {}
  <2>1. \A j \in 1..(s - 1) : j \in Entry /\ j < s
    BY Indices DEF Slot, Entry
  <2>2. Passed(s) = {}
    BY <2>1 DEF Passed
  <2> QED BY <2>2 DEF Passed, Kept
<1>2. IsFiniteSet({}) /\ Cardinality({}) = 0
  BY FS_EmptySet
<1>3. \A w : Total(w, {}) = 0
  BY <1>2, TotalPick
<1>4. 1..(1 - 1) = {}
  OBVIOUS
<1> QED BY <1>1, <1>2, <1>3, <1>4 DEF CopiedOnce

\* The store is about to switch to a new partition once that is complete.
LEMMA EntersReread ==
  ASSUME HeaderInv, Next, pc' = "dst_reread"
  PROVE  DstCount
<1>1. CASE InitFlash \/ DstReread
  BY <1>1 DEF InitFlash, DstReread
<1>2. CASE InitStep
  BY <1>2 DEF InitStep, InitPc
<1>3. CASE \/ \E id \in Id, v \in Val : AddObject(id, v)
           \/ \E v \in Val : AddNoSpace(v)
           \/ \E ids \in SUBSET Id : DestroyObjects(ids) \/ DestroyNothing(ids)
           \/ RefuseBad
  BY <1>3 DEF AddObject, AddNoSpace, DestroyObjects, DestroyNothing, RefuseBad, Return
<1>4. CASE DstStep
  BY <1>4 DEF DstStep, StartCopy
<1>5. CASE ObjStep
  BY <1>5 DEF ObjStep, ObjPc
<1>6. CASE ObjCount
  BY <1>6 DEF ObjCount, StartCopy, Finish
<1>7. CASE SrcErase \/ DstRereadError \/ FlashError \/ Reset
  BY <1>7 DEF SrcErase, DstRereadError, FlashError, Reset, Finish
<1> QED BY <1>1, <1>2, <1>3, <1>4, <1>5, <1>6, <1>7 DEF Next

\* A copy passes each object to keep once.
LEMMA CopyTallyStep ==
  ASSUME HeaderInv, FlashInv, TallyInv, Next
  PROVE  CopyTally'
<1> SUFFICES ASSUME \/ pc' \in {"dst_count", "dst_reread"}
                    \/ pc' \in ObjPc /\ op'.kind = "destroy"
             PROVE  CopyTally'
  BY DEF CopyTally
<1>0. /\ active \in Part /\ Other(active) \in Part /\ Other(active) # active /\ FlashTypeOK
      /\ 1 \in Slot /\ 1 \in Entry /\ ObjectCount + 1 \notin Entry
      /\ \A s \in Slot : s # ObjectCount + 1 => s \in Entry
      /\ \A s \in Slot : s <= ObjectCount <=> s # ObjectCount + 1
      /\ "dst_count" \notin ObjPc /\ "obj_epoch" \in ObjPc /\ "dst_reread" \notin ObjPc
      /\ \A e \in Entry : e \in Slot /\ e + 1 \in Slot
      /\ DirTyped /\ DirInv
  BY PartFacts, Indices, FlashAssumption DEF HeaderInv, HeaderTypeOK, ControlTypeOK, FlashInv, Slot, Entry, ObjPc
<1> PICK q \in Part : q = Other(active)
  BY <1>0
<1> PICK p \in Part : p = active
  BY <1>0
<1>1. CASE DstStep /\ pc = "dst_start"
  <2>1. /\ obj' = obj /\ active' = active /\ dir' = dir /\ op' = op
        /\ Empty(q)
    BY <1>1 DEF DstStep, Write, ProgramHdrStart, ProgramHdr, ObjPc, ram, FlashInv, SoundInv
  <2>2. PICK s : s = NextSource(op.ids, 1)
    OBVIOUS
  <2>3. /\ cp' = [src |-> s, entry |-> 1, data |-> 0]
        /\ pc' = IF s <= ObjectCount THEN "obj_epoch" ELSE "dst_count"
    BY <1>1, <2>2 DEF DstStep, StartCopy
  <2>4. /\ s \in Slot /\ 1 <= s
        /\ s # ObjectCount + 1 => Kept(s)
        /\ \A j \in Entry : j < s => ~Kept(j)
    <3>1. \A j \in Entry : 1 <= j
      BY Indices
    <3> QED BY <1>0, <2>2, <3>1, NextSourceIs DEF Kept
  <2>5. CopiedOnce(q, p, s, 1, 0)'
    BY <2>1, <2>4, CopiedOnceNone
  <2>6. q = Other(active)' /\ p = active' /\ (Kept(s)' <=> Kept(s))
    BY <2>1 DEF Kept
  <2>7. \A i \in Entry : obj'[q][i] = BlankObj
    BY <2>1 DEF Empty
  <2>8. cp'.src = s /\ cp'.entry = 1 /\ cp'.data = 0 /\ pc' # "dst_reread"
    BY <1>0, <2>3
  <2>9. CASE s = ObjectCount + 1
    <3>1. pc' = "dst_count"
      BY <1>0, <2>3, <2>4, <2>9
    <3> QED BY <1>0, <2>5, <2>6, <2>7, <2>8, <2>9, <3>1 DEF CopyTally
  <2>10. CASE s # ObjectCount + 1
    <3>1. pc' = "obj_epoch" /\ s \in Entry /\ Kept(s)
      BY <1>0, <2>3, <2>4, <2>10
    <3> QED BY <1>0, <2>5, <2>6, <2>8, <3>1 DEF CopyTally
  <2> QED BY <2>9, <2>10
<1>2. CASE ObjStep
  <2>1. /\ pc \in ObjPc \ {"obj_count"} /\ pc' \in ObjPc /\ Ready /\ Write /\ op.kind = "destroy"
        /\ active' = active /\ dir' = dir /\ op' = op /\ cp' = cp
    BY <1>0, <1>2 DEF ObjStep, ram, ObjPc
  <2>2. /\ cp.src \in Entry /\ cp.entry \in Entry /\ Kept(cp.src)
        /\ CopiedOnce(q, p, cp.src, cp.entry, cp.data)
    BY <2>1 DEF TallyInv, CopyTally
  <2>3. PICK e \in Entry : e = cp.entry /\ Target.part = q /\ Target.entry = e
    BY <2>1, <2>2, TargetIs
  <2>4. \A i \in Entry : i # e => obj'[q][i] = obj[q][i]
    <3>1. CASE pc = "obj_data"
      <4>1. obj' = obj
        BY <2>1, <3>1 DEF Write, ProgramData
      <4> QED BY <4>1
    <3>2. CASE pc # "obj_data"
      <4>1. obj' = [obj EXCEPT ![q][e] = Words(pc)]
        BY <2>1, <2>3, <3>2, ObjWrite
      <4> QED BY <1>0, <4>1 DEF FlashTypeOK
    <3> QED BY <3>1, <3>2
  <2>5. \A i \in 1..(e - 1) : obj'[q][i] = obj[q][i]
    <3>1. \A i \in 1..(e - 1) : i \in Entry /\ i # e
      BY Indices
    <3> QED BY <2>4, <3>1
  <2>6. obj'[p] = obj[p]
    <3>1. pc \notin InitPc /\ pc # "off"
      BY <2>1 DEF ObjPc, InitPc
    <3> QED BY <2>1, <3>1, EntriesKept
  <2>7. PICK s \in Entry : s = cp.src
    BY <2>2
  <2>8. PICK z : z = cp.data
    OBVIOUS
  <2>9. CopiedOnce(q, p, s, e, z)'
    BY <1>0, <2>1, <2>2, <2>3, <2>5, <2>6, <2>7, <2>8, CopiedOnceKept
  <2>10. q = Other(active)' /\ p = active' /\ (Kept(s)' <=> Kept(s)) /\ s = cp'.src /\ e = cp'.entry
         /\ z = cp'.data
    BY <2>1, <2>3, <2>7, <2>8 DEF Kept
  <2>11. pc' \notin {"dst_count", "dst_reread"}
    BY <1>0, <2>1
  <2> QED BY <2>2, <2>7, <2>9, <2>10, <2>11 DEF CopyTally
<1>3. CASE ObjCount /\ op.kind # "add"
  <2>1. /\ pc = "obj_count" /\ pc \in ObjPc /\ Ready /\ Write /\ op.kind = "destroy"
        /\ active' = active /\ dir' = dir /\ op' = op
    BY <1>3, TargetFacts, KindFacts DEF ObjCount, ObjPc
  <2>2. /\ cp.src \in Entry /\ cp.entry \in Entry /\ Kept(cp.src)
        /\ CopiedOnce(q, p, cp.src, cp.entry, cp.data)
    BY <2>1 DEF TallyInv, CopyTally
  <2>3. /\ Target.part = q /\ Target.entry = cp.entry
        /\ Target.meta = dir.objects[cp.src].meta /\ Length \in Nat /\ Target.start \in Nat
        /\ Running /\ ~dirBad /\ Sound(active) /\ Sound(Target.part)
        /\ \A i \in Entry : i > Target.entry => obj[Target.part][i] = BlankObj
    BY <2>1, TargetFacts, TargetIs DEF FlashInv, TargetInv
  <2>4. PICK s \in Entry, e \in Entry : s = cp.src /\ e = cp.entry
    BY <2>2
  <2>5. PICK t : t = NextSource(op.ids, s + 1)
    OBVIOUS
  <2>6. PICK z, len : z = cp.data /\ len = Length
    OBVIOUS
  <2>7. /\ cp' = [src |-> t, entry |-> e + 1, data |-> z + len]
        /\ pc' = IF t <= ObjectCount THEN "obj_epoch" ELSE "dst_count"
    BY <1>3, <2>4, <2>5, <2>6 DEF ObjCount, StartCopy
  <2>8. /\ t \in Slot /\ s + 1 <= t
        /\ t # ObjectCount + 1 => Kept(t)
        /\ \A j \in Entry : s + 1 <= j /\ j < t => ~Kept(j)
    BY <1>0, <2>5, NextSourceIs DEF Kept
  <2>9. PICK w \in {Words(pc)} : obj' = [obj EXCEPT ![q][e] = w]
    BY <2>1, <2>3, <2>4, ObjWrite
  <2>10. /\ w.meta = dir.objects[s].meta /\ w.count = Length /\ Length # Blank
         /\ w.start = Target.start /\ Target.start # Blank
    BY <2>1, <2>3, <2>4, <2>9, WordAssumption DEF Words
  <2>11. /\ obj'[q][e] = w
         /\ \A i \in Entry : i # e => obj'[q][i] = obj[q][i]
    BY <1>0, <2>9 DEF FlashTypeOK
  <2>12. \A i \in 1..(e - 1) : obj'[q][i] = obj[q][i]
    <3>1. \A i \in 1..(e - 1) : i \in Entry /\ i # e
      BY Indices
    <3> QED BY <2>11, <3>1
  <2>13. obj'[p] = obj[p]
    <3>1. pc \notin InitPc /\ pc # "off"
      BY <2>1 DEF InitPc
    <3> QED BY <2>1, <3>1, EntriesKept
  <2>14. len \in Nat /\ len = UnitsOf[dir.objects[s].meta.val]
    BY <2>3, <2>4, <2>6 DEF Length
  <2>15. /\ DirTally /\ Sound(p) /\ Sound(q) /\ CopiedOnce(q, p, s, e, z) /\ Kept(s)
         /\ obj'[q][e].count # Blank /\ obj'[q][e].start # Blank
         /\ obj'[q][e].meta = dir.objects[s].meta
    BY <2>2, <2>3, <2>4, <2>6, <2>10, <2>11 DEF TallyInv
  <2>16. CopiedOnce(q, p, t, e + 1, z + len)'
    BY <1>0, <2>1, <2>3, <2>8, <2>12, <2>13, <2>14, <2>15, CopiedOnceMore
  <2>17. q = Other(active)' /\ p = active' /\ (Kept(t)' <=> Kept(t))
    BY <2>1 DEF Kept
  <2>18. /\ cp'.src = t /\ cp'.entry = e + 1 /\ cp'.data = z + len /\ pc' # "dst_reread"
         /\ e + 1 \in Slot
    BY <1>0, <2>7
  <2>19. \A i \in Entry : i >= e + 1 => obj'[q][i] = BlankObj
    <3>1. \A i \in Entry : i >= e + 1 => i > e /\ i # e
      BY Indices
    <3> QED BY <2>3, <2>4, <2>11, <3>1
  <2>20. CASE t = ObjectCount + 1
    <3>1. pc' = "dst_count"
      BY <1>0, <2>7, <2>8, <2>20
    <3> QED BY <1>0, <2>16, <2>17, <2>18, <2>19, <2>20, <3>1 DEF CopyTally
  <2>21. CASE t # ObjectCount + 1
    <3>1. pc' = "obj_epoch" /\ t \in Entry /\ Kept(t)
      BY <1>0, <2>7, <2>8, <2>21
    <3>2. e + 1 <= t
      <4>1. e = Cardinality(Passed(s)) + 1 /\ s \in Slot
        BY <1>0, <2>15 DEF CopiedOnce
      <4>2. e <= s
        BY <4>1, CopiedFits
      <4> QED BY <2>8, <4>2, Indices, <3>1
    <3>3. e + 1 \in Entry
      BY <3>1, <3>2, Indices DEF Entry
    <3> QED BY <1>0, <2>16, <2>17, <2>18, <3>1, <3>3 DEF CopyTally
  <2> QED BY <2>20, <2>21
<1>4. CASE pc' = "obj_epoch" /\ \E id \in Id, v \in Val : AddObject(id, v)
  <2>1. op'.kind = "add" /\ pc' \notin {"dst_count", "dst_reread"}
    BY <1>4 DEF AddObject
  <2> QED BY <2>1
<1>5. CASE pc' = "dst_reread"
  <2>1. /\ pc = "dst_count" /\ obj' = obj /\ active' = active /\ dir' = dir /\ op' = op /\ cp' = cp
    BY <1>5, EntersReread DEF DstCount, Write, ProgramHdr, ProgramHdrCount, ObjPc, ram
  <2>2. /\ cp.src = ObjectCount + 1 /\ cp.entry \in Slot
        /\ CopiedOnce(q, p, cp.src, cp.entry, cp.data)
        /\ \A i \in Entry : i >= cp.entry => obj[q][i] = BlankObj
    BY <2>1 DEF TallyInv, CopyTally
  <2>3. PICK e \in Slot : e = cp.entry
    BY <2>2
  <2>4. PICK s, z : s = cp.src /\ z = cp.data
    OBVIOUS
  <2>5. CopiedOnce(q, p, s, e, z)'
    BY <2>1, <2>2, <2>3, <2>4, CopiedOnceKept
  <2>6. q = Other(active)' /\ p = active' /\ s = cp'.src /\ e = cp'.entry /\ z = cp'.data
    BY <2>1, <2>3, <2>4
  <2>7. \A i \in Entry : i >= e => obj'[q][i] = BlankObj
    BY <2>1, <2>2, <2>3
  <2> QED BY <1>0, <1>5, <2>2, <2>3, <2>4, <2>5, <2>6, <2>7 DEF CopyTally
<1> QED BY <1>1, <1>2, <1>3, <1>4, <1>5, Enters

\* So the invariant is inductive ...
LEMMA TallyStep ==
  ASSUME HeaderInv, HeaderInv', FlashInv, TallyInv, [Next]_vars
  PROVE  TallyInv'
<1>1. CASE Next
  BY <1>1, TiledStep, DirTallyStep, CopyTallyStep DEF TallyInv
<1>2. CASE UNCHANGED vars
  <2>1. /\ hdr' = hdr /\ obj' = obj /\ pc' = pc /\ active' = active /\ dir' = dir
        /\ dirBad' = dirBad /\ cp' = cp /\ op' = op
    BY <1>2 DEF vars
  <2>2. /\ \A p : Weights(p)' = Weights(p)
        /\ \A p, i : (Whole(p, i)' <=> Whole(p, i)) /\ (Sized(p, i)' <=> Sized(p, i))
        /\ \A j : Kept(j)' <=> Kept(j)
    BY <2>1 DEF Whole, Sized, Kept, Weights
  <2>3. TiledInv'
    BY <2>1, <2>2 DEF TallyInv, TiledInv, Tiled, HdrStatus, Other
  <2>4. DirTally'
    BY <2>1, <2>2 DEF TallyInv, DirTally, Mirrors, Overridden, Tallies, Dead, Running
  <2>5. \A s : Passed(s)' = Passed(s)
    BY <2>2 DEF Passed
  <2>6. CopyTally'
    BY <2>1, <2>2, <2>5 DEF TallyInv, CopyTally, CopiedOnce, Other
  <2> QED BY <2>3, <2>4, <2>6 DEF TallyInv
<1> QED BY <1>1, <1>2

\* ... and holds at first ...
LEMMA TallyInit == Init => TallyInv
<1> SUFFICES ASSUME Init PROVE TallyInv
  OBVIOUS
<1>1. pc = "off" /\ hdr = [p \in Part |-> BlankHdr]
  BY DEF Init
<1>2. \A p \in Part : HdrStatus(p) # "USED"
  BY <1>1, UsedMeans DEF BlankHdr, Hdr
<1> QED BY <1>1, <1>2 DEF TallyInv, TiledInv, DirTally, CopyTally, Running, ObjPc

\* ... and of every run.
LEMMA TallyHolds ==
  ASSUME HeadersReadable
  PROVE  Spec => [](HeaderInv /\ FlashInv /\ TallyInv)
<1>1. Init => TallyInv
  BY TallyInit
<1>2. HeaderInv /\ HeaderInv' /\ FlashInv /\ TallyInv /\ [Next]_vars => TallyInv'
  BY TallyStep
<1>3. Spec => [](HeaderInv /\ FlashInv)
  BY FlashIsSound
<1> QED BY <1>1, <1>2, <1>3, PTL DEF Spec

\* The directory kept up to date in RAM by each call is the one that a reset
\* would read back from flash, down to the counters of reclaimable space
\* (DirectoryMatchesFlash).
THEOREM DirectoryMatches ==
  ASSUME HeadersReadable
  PROVE  Spec => []DirectoryMatchesFlash
<1>1. HeaderInv /\ FlashInv /\ TallyInv => DirectoryMatchesFlash
  <2> SUFFICES ASSUME HeaderInv, FlashInv, TallyInv, pc = "idle", ~dirBad, NextEntryErased
               PROVE  dir = ReadDirectory(active)
    BY DEF DirectoryMatchesFlash
  <2>1. /\ Running /\ active \in Part /\ HdrStatus(active) = "USED" /\ FlashTypeOK /\ DirTyped /\ DirInv
    BY DEF HeaderInv, HeaderTypeOK, ControlTypeOK, ActiveUsed, FlashInv, Running, InitPc
  <2>2. Sound(active) /\ Tiled(active)
    BY <2>1 DEF FlashInv, SoundInv, TallyInv, TiledInv
  <2>3. Mirrors(dir, active) /\ Tallies(dir, active)
    BY <2>1 DEF TallyInv, DirTally
  <2>4. PICK d : d = ReadDirectory(active)
    OBVIOUS
  <2>5. Mirrors(d, active) /\ Tallies(d, active)
    BY <2>1, <2>2, <2>4, ReadTallies
  <2>6. /\ d \in [objects: [Entry -> MemObject], next: Slot, data: 0..DataUnits,
                  recEntries: {d.recEntries}, recData: {d.recData}]
        /\ \A i \in 1..(d.next - 1) : obj[active][i].epoch
        /\ \A i \in Entry : i >= d.next => obj[active][i] = BlankObj
    BY <2>1, <2>2, <2>4, DirectoryRead
  <2>7. d.next = dir.next
    <3>1. /\ \A i \in 1..(dir.next - 1) : obj[active][i].epoch
          /\ \A i \in Entry : i > dir.next => obj[active][i] = BlankObj
          /\ dir.next \in Slot
      BY <2>1 DEF DirInv, DirTyped
    <3>2. dir.next \in Entry => obj[active][dir.next] = BlankObj
      BY DEF NextEntryErased, Entry
    <3>3. d.next \in Slot
      BY <2>6
    <3>4. ~BlankObj.epoch
      BY DEF BlankObj
    <3>5. ~(d.next < dir.next)
      <4> SUFFICES ASSUME d.next < dir.next PROVE FALSE
        OBVIOUS
      <4>1. d.next \in Entry /\ d.next >= d.next /\ d.next \in 1..(dir.next - 1)
        BY <3>1, <3>3, Indices DEF Slot, Entry
      <4> QED BY <2>6, <3>1, <3>4, <4>1
    <3>6. ~(dir.next < d.next)
      <4> SUFFICES ASSUME dir.next < d.next PROVE FALSE
        OBVIOUS
      <4>1. dir.next \in Entry /\ dir.next \in 1..(d.next - 1)
        BY <3>1, <3>3, Indices DEF Slot, Entry
      <4> QED BY <2>6, <3>2, <3>4, <4>1
    <3> QED BY <3>1, <3>3, <3>5, <3>6, Indices DEF Slot
  <2>8. \A i \in Entry : d.objects[i] = dir.objects[i]
    BY <2>3, <2>5, <2>7 DEF Mirrors
  <2>9. dir \in [objects: [Entry -> MemObject], next: Slot, data: 0..DataUnits,
                 recEntries: {dir.recEntries}, recData: {dir.recData}]
    BY <2>1 DEF DirTyped
  <2>10. d.objects = dir.objects
    BY <2>6, <2>8, <2>9
  <2>11. Dead(d) = Dead(dir)
    BY <2>7, <2>10 DEF Dead
  <2>12. d.data = dir.data /\ d.recEntries = dir.recEntries /\ d.recData = dir.recData
    BY <2>3, <2>5, <2>7, <2>11 DEF Tallies
  <2> QED BY <2>4, <2>6, <2>7, <2>9, <2>10, <2>12
<1> QED BY <1>1, TallyHolds, PTL

\* A copy without gaps takes the entries and units of what is not dead.
LEMMA LiveCounts ==
  ASSUME FlashTypeOK, DirInv, DirTally, Running, ~dirBad, DirTyped, active \in Part, Sound(active),
         op.ids = {}, NEW L, L = Passed(ObjectCount + 1)
  PROVE  /\ Cardinality(L) + 1 = dir.next - dir.recEntries
         /\ Total(Weights(active), L) = dir.data - dir.recData
<1>1. dir.next \in Slot /\ dir.next \in Nat /\ ObjectCount + 1 \in Slot /\ Entry = 1..ObjectCount
  BY Indices DEF DirTyped, Slot, Entry
<1>2. PICK D, N, w : D = Dead(dir) /\ N = 1..(dir.next - 1) /\ w = Weights(active)
  OBVIOUS
<1>3. N \subseteq Entry /\ IsFiniteSet(N) /\ Cardinality(N) = dir.next - 1
  <2>1. N \subseteq Entry /\ IsFiniteSet(N)
    BY <1>1, <1>2, EntriesFinite
  <2>2. Cardinality(N) = dir.next - 1
    <3> PICK m \in Nat : m = dir.next
      BY <1>1
    <3>1. m - 1 \in Int /\ m >= 1
      BY <1>1, EntriesFinite
    <3>2. Cardinality(1..(m - 1)) = m - 1
      BY <3>1, FS_Interval
    <3> QED BY <1>2, <3>2
  <2> QED BY <2>1, <2>2
<1>4. \A i \in Entry : i \in L <=> dir.objects[i].status = "USED"
  <2>1. 1..((ObjectCount + 1) - 1) = Entry
    BY <1>1, Indices
  <2> QED BY <2>1 DEF Passed, Kept
<1>5. \A i \in Entry : dir.objects[i].status = "USED" => i \in N
  <2> SUFFICES ASSUME NEW i \in Entry, dir.objects[i].status = "USED" PROVE i \in N
    OBVIOUS
  <2>1. i < dir.next
    BY UsedEntry
  <2> QED BY <1>1, <1>2, <2>1, Indices
<1>6. L \subseteq Entry /\ IsFiniteSet(L) /\ Cardinality(L) \in Nat
  BY <1>1, PassedIs
<1>7. D \subseteq N /\ \A i \in N : i \in D <=> dir.objects[i].status # "USED"
  BY <1>2 DEF Dead
<1>8. L \intersect D = {} /\ L \union D = N
  BY <1>3, <1>4, <1>5, <1>6, <1>7
<1>9. IsFiniteSet(D) /\ Cardinality(D) \in Nat
  BY <1>3, <1>7, FS_Subset, FS_CardinalityType
<1>10. Cardinality(L) + Cardinality(D) = dir.next - 1
  <2>1. Cardinality(L \union D) = Cardinality(L) + Cardinality(D) - Cardinality(L \intersect D)
    BY <1>6, <1>9, FS_Union
  <2>2. Cardinality(L \intersect D) = 0
    BY <1>8, FS_EmptySet
  <2> PICK l \in Nat, c \in Nat : l = Cardinality(L) /\ c = Cardinality(D)
    BY <1>6, <1>9
  <2>3. Cardinality(L \union D) = l + c
    BY <2>1, <2>2
  <2> QED BY <1>3, <1>8, <2>3
<1>11. Total(w, N) = Total(w, L) + Total(w, D)
  <2>1. \A i \in Entry : w[i] \in Nat
    BY <1>2, WeightIs
  <2>2. \A i \in L \union D : w[i] \in Nat
    BY <1>3, <1>8, <2>1
  <2>3. Total(w, L \union D) = Total(w, L) + Total(w, D)
    BY <1>6, <1>8, <1>9, <2>2, TotalUnion
  <2> QED BY <1>8, <2>3
<1>12. Total(w, L) \in Nat /\ Total(w, D) \in Nat
  <2>1. \A i \in Entry : w[i] \in Nat
    BY <1>2, WeightIs
  <2>2. (\A i \in L : w[i] \in Nat) /\ (\A i \in D : w[i] \in Nat)
    BY <1>3, <1>6, <1>7, <2>1
  <2> QED BY <1>6, <1>9, <2>2, TotalNat
<1>13. dir.data = Total(w, N) /\ dir.recEntries = Cardinality(D) /\ dir.recData = Total(w, D)
  BY <1>2 DEF DirTally, Tallies
<1> QED BY <1>1, <1>2, <1>6, <1>9, <1>10, <1>11, <1>12, <1>13

\* A compaction frees exactly what GetAvailable reported as reclaimable: of
\* entries, and of data units (ReclaimIsExact).  What the copy loop passed and
\* what the directory calls dead are, together and without overlap, all entries
\* of the old partition, and the new one holds the former without a gap.
THEOREM ReclaimExact ==
  ASSUME HeadersReadable
  PROVE  Spec => []ReclaimIsExact
<1>1. HeaderInv /\ FlashInv /\ TallyInv => ReclaimIsExact
  <2> SUFFICES ASSUME HeaderInv, FlashInv, TallyInv, pc = "dst_reread", op.ids = {},
                      NEW new, new = ReadDirectory(Other(active))
               PROVE  /\ new.next = dir.next - dir.recEntries
                      /\ new.data = dir.data - dir.recData
                      /\ new.recEntries = 0
    BY DEF ReclaimIsExact
  <2>1. /\ Running /\ ~dirBad /\ active \in Part /\ Other(active) \in Part
        /\ HdrStatus(active) = "USED" /\ FlashTypeOK /\ DirTyped /\ DirInv /\ DirTally
    BY PartFacts DEF HeaderInv, HeaderTypeOK, ControlTypeOK, ActiveUsed, FlashInv, BadInv,
       Running, InitPc, TallyInv
  <2> PICK q \in Part : q = Other(active)
    BY <2>1
  <2>2. HdrStatus(q) = "USED"
    <3>1. hdr[q] = Hdr(epoch + 1, TRUE, TRUE) /\ epoch + 1 # Blank
      BY WordAssumption DEF HeaderInv, CopyProgress, HeaderTypeOK, ControlTypeOK
    <3> QED BY <2>1, <3>1, UsedMeans DEF Hdr
  <2>3. Sound(active) /\ Sound(q) /\ Tiled(q)
    BY <2>1, <2>2 DEF FlashInv, SoundInv, TallyInv, TiledInv
  <2>4. Mirrors(new, q) /\ Tallies(new, q)
    BY <2>1, <2>3, ReadTallies
  <2>5. /\ new.next \in Slot
        /\ \A i \in 1..(new.next - 1) : obj[q][i].epoch
        /\ \A i \in Entry : i >= new.next => obj[q][i] = BlankObj
        /\ \A i \in Entry : new.objects[i].status = "USED" <=> Latest(q, i)
    BY <2>1, <2>3, DirectoryRead
  <2>6. PICK n \in Slot : n = cp.entry
    BY DEF TallyInv, CopyTally
  <2>7. PICK L : L = Passed(ObjectCount + 1)
    OBVIOUS
  <2>8. /\ n = Cardinality(L) + 1
        /\ cp.data = Total(Weights(active), L)
        /\ cp.data = Total(Weights(q), 1..(n - 1))
        /\ \A i \in 1..(n - 1) : Whole(q, i)
        /\ \A i, k \in 1..(n - 1) : i # k => obj[q][i].meta.id # obj[q][k].meta.id
        /\ \A i \in Entry : i >= n => obj[q][i] = BlankObj
    BY <2>6, <2>7 DEF TallyInv, CopyTally, CopiedOnce
  <2>9. /\ n = dir.next - dir.recEntries
        /\ cp.data = dir.data - dir.recData
    BY <2>1, <2>3, <2>7, <2>8, LiveCounts
  <2>10. new.next = n
    <3>1. ~BlankObj.epoch /\ \A i : obj[q][i] = BlankObj => ~Whole(q, i)
      BY DEF BlankObj, Whole
    <3>2. ~(new.next < n)
      <4> SUFFICES ASSUME new.next < n PROVE FALSE
        OBVIOUS
      <4>1. new.next \in Entry /\ new.next >= new.next /\ new.next \in 1..(n - 1)
        BY <2>5, Indices DEF Slot, Entry
      <4> QED BY <2>5, <2>8, <3>1, <4>1
    <3>3. ~(n < new.next)
      <4> SUFFICES ASSUME n < new.next PROVE FALSE
        OBVIOUS
      <4>1. n \in Entry /\ n >= n /\ n \in 1..(new.next - 1)
        BY <2>5, Indices DEF Slot, Entry
      <4> QED BY <2>5, <2>8, <3>1, <4>1
    <3> QED BY <2>5, <3>2, <3>3, Indices DEF Slot
  <2>11. new.data = cp.data
    BY <2>4, <2>8, <2>10 DEF Tallies
  <2>12. Dead(new) = {}
    <3> SUFFICES ASSUME NEW i \in 1..(n - 1) PROVE new.objects[i].status = "USED"
      BY <2>10 DEF Dead
    <3>1. i \in Entry
      BY Indices DEF Slot, Entry
    <3>2. \A j \in Entry : j > i /\ Whole(q, j) => j \in 1..(n - 1) /\ j # i
      <4> SUFFICES ASSUME NEW j \in Entry, j > i, Whole(q, j) PROVE j \in 1..(n - 1) /\ j # i
        OBVIOUS
      <4>1. ~(j >= n)
        BY <2>8 DEF Whole, BlankObj
      <4> QED BY <3>1, <4>1, Indices DEF Slot
    <3>3. Latest(q, i)
      BY <2>8, <3>2 DEF Latest
    <3> QED BY <2>5, <3>1, <3>3
  <2>13. new.recEntries = 0
    BY <2>4, <2>12, FS_EmptySet DEF Tallies
  <2> QED BY <2>9, <2>10, <2>11, <2>13
<1> QED BY <1>1, TallyHolds, PTL

\* The types that the control part and the directory's layout leave open.
CountsTyped ==
  /\ ~Running \/ dirBad => dir.recEntries \in Nat /\ dir.recData \in Nat
  /\ cp \in [src: 0..(ObjectCount + 1), entry: 0..(ObjectCount + 1), data: 0..DataUnits]

\* What a partition has to reclaim is a number.
LEMMA TalliesNat ==
  ASSUME FlashTypeOK, NEW p \in Part, Sound(p), NEW d, d.next \in Slot, Tallies(d, p)
  PROVE  d.recEntries \in Nat /\ d.recData \in Nat
<1>1. Dead(d) \subseteq 1..(d.next - 1) /\ 1..(d.next - 1) \subseteq Entry /\ IsFiniteSet(1..(d.next - 1))
  BY EntriesFinite DEF Dead
<1>2. IsFiniteSet(Dead(d)) /\ \A i \in Dead(d) : Weights(p)[i] \in Nat
  BY <1>1, FS_Subset, WeightIs
<1> QED BY <1>2, FS_CardinalityType, TotalNat DEF Tallies

\* So are the counters of the directory in RAM.
LEMMA CountsNat ==
  ASSUME HeaderInv, FlashInv, TallyInv, CountsTyped
  PROVE  dir.recEntries \in Nat /\ dir.recData \in Nat
<1>1. CASE Running /\ ~dirBad
  <2>1. /\ Tallies(dir, active) /\ FlashTypeOK /\ active \in Part /\ Sound(active)
        /\ dir.next \in Slot
    BY <1>1 DEF TallyInv, DirTally, HeaderInv, HeaderTypeOK, ControlTypeOK, ActiveUsed, FlashInv,
       SoundInv, DirTyped
  <2> QED BY <2>1, TalliesNat
<1> QED BY <1>1 DEF CountsTyped

\* What the copy loop goes on to.
LEMMA CopyMoves ==
  ASSUME Next
  PROVE  \/ cp' \in {cp, NoCopy}
         \/ \E s : cp' = [src |-> s, entry |-> 1, data |-> 0] /\ s = NextSource(op.ids, 1)
         \/ /\ pc = "obj_count" /\ op.kind # "add"
            /\ cp' = [src |-> NextSource(op.ids, cp.src + 1), entry |-> cp.entry + 1,
                      data |-> cp.data + Length]
<1>1. CASE InitFlash \/ DstReread \/ InitStep \/ ObjStep \/ DstCount
  BY <1>1 DEF InitFlash, DstReread, InitStep, ObjStep, DstCount, ram
<1>2. CASE \/ \E id \in Id, v \in Val : AddObject(id, v)
           \/ \E v \in Val : AddNoSpace(v)
           \/ \E ids \in SUBSET Id : DestroyObjects(ids) \/ DestroyNothing(ids)
           \/ RefuseBad
  BY <1>2 DEF AddObject, AddNoSpace, DestroyObjects, DestroyNothing, RefuseBad, Return
<1>3. CASE DstStep
  BY <1>3 DEF DstStep, StartCopy
<1>4. CASE ObjCount
  BY <1>4 DEF ObjCount, StartCopy, Finish
<1>5. CASE SrcErase \/ DstRereadError \/ FlashError \/ Reset
  BY <1>5 DEF SrcErase, DstRereadError, FlashError, Reset, Finish
<1> QED BY <1>1, <1>2, <1>3, <1>4, <1>5 DEF Next

\* Each step keeps these types.
LEMMA CountsStep ==
  ASSUME HeaderInv, HeaderInv', FlashInv, TallyInv, CountsTyped, Next
  PROVE  CountsTyped'
<1>1. ~Running' \/ dirBad' => dir'.recEntries \in Nat /\ dir'.recData \in Nat
  <2>1. CASE dir' = dir
    BY <2>1, CountsNat
  <2>2. CASE dir' = EmptyDirectory
    BY <2>2 DEF EmptyDirectory
  <2>3. CASE \E p \in Part : /\ Sound(p) /\ (HdrStatus(p) = "USED" \/ Empty(p))
                             /\ dir' = ReadDirectory(p)
    <3>1. PICK p \in Part : /\ Sound(p) /\ (HdrStatus(p) = "USED" \/ Empty(p))
                            /\ dir' = ReadDirectory(p)
      BY <2>3
    <3>2. FlashTypeOK /\ Tiled(p)
      BY <3>1, EmptyTiled DEF FlashInv, TallyInv, TiledInv
    <3>3. PICK d : d = ReadDirectory(p)
      OBVIOUS
    <3>4. Tallies(d, p) /\ d.next \in Slot
      BY <3>1, <3>2, <3>3, ReadTallies, DirectoryRead
    <3> QED BY <3>1, <3>2, <3>3, <3>4, TalliesNat
  <2>4. CASE pc' = "idle" /\ ~dirBad'
    BY <2>4 DEF Running, InitPc
  <2> QED BY <2>1, <2>2, <2>3, <2>4, DirMoves
<1>2. cp' \in [src: 0..(ObjectCount + 1), entry: 0..(ObjectCount + 1), data: 0..DataUnits]
  <2>1. CASE cp' = cp
    BY <2>1 DEF CountsTyped
  <2>2. CASE cp' = NoCopy
    BY <2>2, Indices DEF NoCopy
  <2>3. CASE \E s : cp' = [src |-> s, entry |-> 1, data |-> 0] /\ s = NextSource(op.ids, 1)
    <3>1. PICK s : cp' = [src |-> s, entry |-> 1, data |-> 0] /\ s = NextSource(op.ids, 1)
      BY <2>3
    <3>2. 1 \in Slot
      BY Indices DEF Slot
    <3>3. s \in Slot
      BY <3>1, <3>2, NextSourceIs
    <3> QED BY <3>1, <3>3, Indices DEF Slot
  <2>4. CASE /\ pc = "obj_count" /\ op.kind # "add"
             /\ cp' = [src |-> NextSource(op.ids, cp.src + 1), entry |-> cp.entry + 1,
                       data |-> cp.data + Length]
    <3>1. pc \in ObjPc
      BY <2>4 DEF ObjPc
    <3>2. op.kind = "destroy"
      BY <2>4, <3>1, KindFacts DEF HeaderInv, OpProgress
    <3>3. /\ cp.src \in Entry /\ cp.entry \in Entry
          /\ Target.start = cp.data /\ Target.start \in Nat /\ Length \in Nat
          /\ Target.start + Length <= DataUnits
      BY <2>4, <3>1, <3>2, TargetIs, TargetFacts DEF TallyInv, CopyTally, FlashInv, TargetInv
    <3>4. PICK s : s = NextSource(op.ids, cp.src + 1)
      OBVIOUS
    <3>5. cp.src + 1 \in Slot
      BY <3>3, Indices DEF Slot
    <3>6. s \in Slot
      BY <3>4, <3>5, NextSourceIs
    <3> QED BY <2>4, <3>3, <3>4, <3>6, Indices DEF Slot
  <2> QED BY <2>1, <2>2, <2>3, <2>4, CopyMoves
<1> QED BY <1>1, <1>2 DEF CountsTyped

\* The flash words, the RAM context and the call in progress keep their types
\* (TypeOK).
THEOREM TypeCorrect ==
  ASSUME HeadersReadable
  PROVE  Spec => []TypeOK
<1>1. Init => CountsTyped
  BY Indices DEF Init, CountsTyped, EmptyDirectory, NoCopy
<1>2. HeaderInv /\ HeaderInv' /\ FlashInv /\ TallyInv /\ CountsTyped /\ [Next]_vars => CountsTyped'
  <2>1. UNCHANGED vars /\ CountsTyped => CountsTyped'
    BY DEF vars, CountsTyped, Running
  <2> QED BY <2>1, CountsStep
<1>3. HeaderInv /\ FlashInv /\ TallyInv /\ CountsTyped => TypeOK
  <2> SUFFICES ASSUME HeaderInv, FlashInv, TallyInv, CountsTyped PROVE TypeOK
    OBVIOUS
  <2>1. dir \in Directory
    BY CountsNat DEF FlashInv, DirTyped, CountsTyped, Directory
  <2> QED BY <2>1 DEF HeaderInv, HeaderTypeOK, FlashInv, CountsTyped, TypeOK, DirectoryTypeOK
<1> QED BY <1>1, <1>2, <1>3, TallyHolds, PTL DEF Spec

(***************************************************************************)
(* What a partition holds, said by its complete entries.                   *)
(***************************************************************************)
\* Contents c are those of partition p: of each id its latest complete entry.
Says(p, c) ==
  /\ c \in Contents
  /\ \A i \in Entry : Latest(p, i) => c[obj[p][i].meta.id] = obj[p][i].meta.val
  /\ \A id \in Id : (\A i \in Entry : Whole(p, i) => obj[p][i].meta.id # id) => c[id] = None

\* Of several complete entries of an id one is the latest ...
LEMMA LatestExists ==
  ASSUME NEW p \in Part, NEW i \in Entry, Whole(p, i)
  PROVE  \E j \in Entry : Latest(p, j) /\ obj[p][j].meta.id = obj[p][i].meta.id
<1> DEFINE S == {j \in Entry : Whole(p, j) /\ obj[p][j].meta.id = obj[p][i].meta.id}
<1>1. S \in SUBSET (0..ObjectCount) /\ S # {}
  BY Indices
<1>2. PICK m \in S : \A x \in S : x <= m
  <2> HIDE DEF S
  <2> QED BY <1>1, Largest, Indices
<1>3. ASSUME NEW j \in Entry, j > m, Whole(p, j), obj[p][j].meta.id = obj[p][i].meta.id
      PROVE  FALSE
  <2>1. j \in S
    BY <1>3
  <2>2. j <= m /\ j \in Nat /\ m \in Nat
    BY <1>2, <2>1, Indices
  <2> QED BY <1>3, <2>2
<1>4. m \in Entry /\ Whole(p, m) /\ obj[p][m].meta.id = obj[p][i].meta.id
  BY <1>2
<1> QED BY <1>3, <1>4 DEF Latest

\* ... and only one.
LEMMA LatestUnique ==
  ASSUME NEW p \in Part, NEW i \in Entry, NEW j \in Entry, Latest(p, i), Latest(p, j),
         obj[p][i].meta.id = obj[p][j].meta.id
  PROVE  i = j
BY Indices DEF Latest

\* There are no two different contents of a partition.
LEMMA SaysOne ==
  ASSUME FlashTypeOK, NEW p \in Part, Sound(p), NEW c, NEW d, Says(p, c), Says(p, d)
  PROVE  c = d
<1> SUFFICES ASSUME NEW id \in Id PROVE c[id] = d[id]
  BY DEF Says, Contents
<1>1. CASE \E i \in Entry : Whole(p, i) /\ obj[p][i].meta.id = id
  <2>1. PICK j \in Entry : Latest(p, j) /\ obj[p][j].meta.id = id
    BY <1>1, LatestExists
  <2> QED BY <2>1 DEF Says
<1>2. CASE \A i \in Entry : Whole(p, i) => obj[p][i].meta.id # id
  BY <1>2 DEF Says
<1> QED BY <1>1, <1>2

\* Reading a partition finds them.
LEMMA HoldsSays ==
  ASSUME FlashTypeOK, NEW p \in Part, Sound(p)
  PROVE  Says(p, Holds(p))
<1>1. \A i \in Entry : Whole(p, i) =>
        /\ Sized(p, i) /\ obj[p][i].epoch /\ obj[p][i].meta \in Meta
        /\ obj[p][i].meta.id \in Id /\ obj[p][i].meta.val \in Val
        /\ obj[p][i].start \in Nat /\ obj[p][i].count \in Nat
        /\ obj[p][i].count = UnitsOf[obj[p][i].meta.val] /\ End(p, i) <= DataUnits
  BY EntryFacts, FlashTyping
<1>2. \A i \in Entry : Whole(p, i) => Fetch(p, obj[p][i]) = obj[p][i].meta.val
  <2> SUFFICES ASSUME NEW i \in Entry, Whole(p, i), NEW k \in 0..(obj[p][i].count - 1)
               PROVE  dat[p][obj[p][i].start + k] = obj[p][i].meta.val
    BY DEF Fetch
  <2> DEFINE u == obj[p][i].start + k
  <2>1. u \in DataUnit /\ obj[p][i].start <= u /\ u < End(p, i)
    BY <1>1, Indices DEF DataUnit, End
  <2> HIDE DEF u
  <2>2. dat[p][u] = obj[p][i].meta.val
    BY <2>1 DEF Sound, Intact
  <2> QED BY <2>2 DEF u
<1>3. \A id \in Id : Complete(p, id) = {i \in Entry : Whole(p, i) /\ obj[p][i].meta.id = id}
  BY <1>1 DEF Complete, Whole, Sized
<1>4. ASSUME NEW id \in Id, Complete(p, id) # {}
      PROVE  /\ Max(Complete(p, id)) \in Entry
             /\ Latest(p, Max(Complete(p, id))) /\ obj[p][Max(Complete(p, id))].meta.id = id
             /\ Holds(p)[id] = obj[p][Max(Complete(p, id))].meta.val
  <2> DEFINE S == Complete(p, id)
             m == Max(S)
  <2>1. S \in SUBSET (0..ObjectCount) /\ S # {}
    BY <1>3, <1>4, Indices
  <2>2. m \in S /\ \A x \in S : x <= m
    <3> HIDE DEF S
    <3> QED BY <2>1, MaxMeans, Indices
  <2>3. Holds(p)[id] = Fetch(p, obj[p][m])
    BY <1>4 DEF Holds
  <2> HIDE DEF m
  <2>4. m \in Entry /\ Whole(p, m) /\ obj[p][m].meta.id = id
    BY <1>3, <2>2
  <2>5. ASSUME NEW j \in Entry, j > m, Whole(p, j), obj[p][j].meta.id = id
        PROVE  FALSE
    <3>1. j <= m
      BY <1>3, <2>2, <2>5
    <3> QED BY <2>4, <2>5, <3>1, Indices
  <2>6. Latest(p, m)
    BY <2>4, <2>5 DEF Latest
  <2> QED BY <1>2, <2>3, <2>4, <2>6 DEF m
<1>5. \A id \in Id : Complete(p, id) = {} => Holds(p)[id] = None
  BY DEF Holds
<1>6. Holds(p) \in Contents
  <2>1. \A id \in Id : Holds(p)[id] \in Val \union {None}
    BY <1>1, <1>4, <1>5 DEF Latest
  <2>2. Holds(p) = [id \in Id |-> Holds(p)[id]]
    BY DEF Holds
  <2> QED BY <2>1, <2>2 DEF Contents
<1>7. ASSUME NEW i \in Entry, Latest(p, i)
      PROVE  Holds(p)[obj[p][i].meta.id] = obj[p][i].meta.val
  <2> DEFINE id == obj[p][i].meta.id
  <2>1. id \in Id /\ i \in Complete(p, id)
    BY <1>1, <1>3, <1>7 DEF Latest
  <2> HIDE DEF id
  <2>2. /\ Max(Complete(p, id)) \in Entry
        /\ Latest(p, Max(Complete(p, id))) /\ obj[p][Max(Complete(p, id))].meta.id = id
        /\ Holds(p)[id] = obj[p][Max(Complete(p, id))].meta.val
    BY <1>4, <2>1
  <2>3. Max(Complete(p, id)) = i
    BY <1>7, <2>2, LatestUnique DEF id
  <2> QED BY <2>2, <2>3 DEF id
<1>8. ASSUME NEW id \in Id, \A i \in Entry : Whole(p, i) => obj[p][i].meta.id # id
      PROVE  Holds(p)[id] = None
  BY <1>3, <1>5, <1>8
<1> QED BY <1>6, <1>7, <1>8 DEF Says

\* A partition whose complete entries stay the same holds the same.
LEMMA HoldsKept ==
  ASSUME FlashTypeOK, FlashTypeOK', NEW p \in Part, Sound(p), Sound(p)',
         \A i \in Entry : /\ Whole(p, i)' <=> Whole(p, i)
                          /\ Whole(p, i) => obj'[p][i].meta = obj[p][i].meta
  PROVE  Holds(p)' = Holds(p)
<1>1. Says(p, Holds(p))
  BY HoldsSays
<1>2. (FlashTypeOK /\ Sound(p) => Says(p, Holds(p)))'
  BY HoldsSays, PTL
<1>3. PICK c : c = Holds(p)'
  OBVIOUS
<1>4. Says(p, c)'
  BY <1>2, <1>3 DEF Says
<1>5. Says(p, c)
  BY <1>4 DEF Says, Latest
<1> QED BY <1>1, <1>3, <1>5, SaysOne

\* A directory that names the latest entries shows the callers what is stored.
LEMMA ViewIs ==
  ASSUME FlashTypeOK, DirInv, DirExact, DirTyped, active \in Part, Sound(active), Running
  PROVE  View(active, dir) = Holds(active)
<1>1. /\ ~dirBad
      /\ \A i \in Entry : dir.objects[i].status = "USED" <=> Latest(active, i)
      /\ dir.next \in Nat /\ \A i \in 1..(dir.next - 1) : i \in Entry
  BY Indices DEF DirExact, DirTyped, Slot, Entry
<1>2. \A i \in Entry : Latest(active, i) =>
        /\ i \in 1..(dir.next - 1)
        /\ dir.objects[i].meta = obj[active][i].meta
        /\ dir.objects[i].start = obj[active][i].start
        /\ dir.objects[i].count = obj[active][i].count
  <2> SUFFICES ASSUME NEW i \in Entry, Latest(active, i)
               PROVE  /\ i \in 1..(dir.next - 1)
                      /\ dir.objects[i].meta = obj[active][i].meta
                      /\ dir.objects[i].start = obj[active][i].start
                      /\ dir.objects[i].count = obj[active][i].count
    OBVIOUS
  <2>1. dir.objects[i].status = "USED"
    BY <1>1
  <2> QED BY <1>1, <2>1, UsedEntry, Indices
<1>3. \A id \in Id : \A i : i \in Find(dir, id) <=>
        i \in Entry /\ Latest(active, i) /\ obj[active][i].meta.id = id
  BY <1>1, <1>2 DEF Find
<1>4. Says(active, Holds(active))
  BY HoldsSays
<1>5. \A i \in Entry : Latest(active, i) =>
        Fetch(active, dir.objects[i]) = Fetch(active, obj[active][i])
  BY <1>2 DEF Fetch
<1>6. \A i \in Entry : Latest(active, i) => Fetch(active, obj[active][i]) = obj[active][i].meta.val
  <2> SUFFICES ASSUME NEW i \in Entry, Latest(active, i), NEW k \in 0..(obj[active][i].count - 1)
               PROVE  dat[active][obj[active][i].start + k] = obj[active][i].meta.val
    BY DEF Fetch
  <2>1. /\ Whole(active, i) /\ obj[active][i].start \in Nat /\ End(active, i) <= DataUnits
        /\ UnitsOf[obj[active][i].meta.val] \in Nat
        /\ obj[active][i].count = UnitsOf[obj[active][i].meta.val]
    BY EntryFacts DEF Latest
  <2> DEFINE u == obj[active][i].start + k
  <2>2. u \in DataUnit /\ obj[active][i].start <= u /\ u < End(active, i)
    BY <2>1, Indices DEF DataUnit, End
  <2> HIDE DEF u
  <2>3. dat[active][u] = obj[active][i].meta.val
    BY <2>1, <2>2 DEF Sound, Intact
  <2> QED BY <2>3 DEF u
<1>7. ASSUME NEW id \in Id
      PROVE  View(active, dir)[id] = Holds(active)[id]
  <2>1. CASE Find(dir, id) = {}
    <3>1. View(active, dir)[id] = None
      BY <2>1 DEF View
    <3>2. \A i \in Entry : Whole(active, i) => obj[active][i].meta.id # id
      BY <1>3, <2>1, LatestExists
    <3> QED BY <1>4, <3>1, <3>2 DEF Says
  <2>2. CASE Find(dir, id) # {}
    <3> DEFINE m == Min(Find(dir, id))
    <3>1. m \in Find(dir, id)
      <4>1. Find(dir, id) \in SUBSET Nat
        BY <1>3, Indices
      <4> QED BY <2>2, <4>1, MinMeans
    <3>2. View(active, dir)[id] = Fetch(active, dir.objects[m])
      BY <2>2 DEF View
    <3> HIDE DEF m
    <3>3. m \in Entry /\ Latest(active, m) /\ obj[active][m].meta.id = id
      BY <1>3, <3>1
    <3> QED BY <1>4, <1>5, <1>6, <3>2, <3>3 DEF Says
  <2> QED BY <2>1, <2>2
<1>8. /\ View(active, dir) = [id \in Id |-> View(active, dir)[id]]
      /\ Holds(active) = [id \in Id |-> Holds(active)[id]]
  BY DEF View, Holds
<1> QED BY <1>7, <1>8

\* While a call is under way the complete entries of the partition in use stay
\* as they are, but for the last word of AddObject.
LEMMA ActiveKept ==
  ASSUME HeaderInv, FlashInv, NEW p \in Part, p = active, pc \notin InitPc, pc # "off",
         \/ Ready /\ Write /\ ~(pc = "obj_count" /\ op.kind = "add")
         \/ Ready /\ PartialWrite
         \/ UNCHANGED flash
  PROVE  \A i \in Entry : /\ Whole(p, i)' <=> Whole(p, i)
                          /\ Whole(p, i) => obj'[p][i].meta = obj[p][i].meta
<1>1. /\ Other(active) \in Part /\ Other(active) # p /\ FlashTypeOK
  BY PartFacts DEF FlashInv
<1>2. CASE obj'[p] = obj[p]
  BY <1>2 DEF Whole
<1>3. CASE UNCHANGED flash
  BY <1>2, <1>3 DEF flash
<1>4. CASE pc \notin ObjPc /\ ~UNCHANGED flash
  <2>1. \/ obj' = obj
        \/ \E areas : Erase(Other(active), areas)
    BY <1>4 DEF Write, PartialWrite, ObjPc, InitPc, ProgramHdr, ProgramHdrEpoch,
       ProgramHdrStart, ProgramHdrCount
  <2>2. obj'[p] = obj[p]
    BY <1>1, <2>1 DEF Erase, FlashTypeOK
  <2> QED BY <1>2, <2>2
<1>5. CASE pc = "obj_data" /\ ~UNCHANGED flash
  <2>1. obj' = obj
    BY <1>5 DEF Write, PartialWrite, ProgramData
  <2> QED BY <1>2, <2>1
<1>6. CASE pc \in ObjPc \ {"obj_data"} /\ ~UNCHANGED flash
  <2>1. PICK q \in Part, e \in Entry : q = Target.part /\ e = Target.entry
    BY <1>6, TargetFacts
  <2>2. PICK w \in {TornWords, Words(pc)} :
          /\ obj' = [obj EXCEPT ![q][e] = w]
          /\ pc = "obj_meta" \/ (w = Words(pc) /\ ~(pc = "obj_count" /\ op.kind = "add"))
          /\ Ready
    <3>1. Ready
      BY <1>6
    <3>2. CASE Write /\ ~(pc = "obj_count" /\ op.kind = "add")
      <4>1. obj' = [obj EXCEPT ![q][e] = Words(pc)]
        BY <1>6, <2>1, <3>1, <3>2, ObjWrite
      <4> QED BY <3>1, <3>2, <4>1
    <3>3. CASE PartialWrite
      <4>1. obj' = [obj EXCEPT ![q][e] = TornWords] /\ pc = "obj_meta"
        BY <1>6, <2>1, <3>1, <3>3, ObjTorn
      <4> QED BY <3>1, <4>1
    <3> QED BY <1>6, <3>2, <3>3
  <2>3. CASE op.kind # "add"
    <3>1. q # p
      BY <1>1, <2>1, <2>3, TargetIs
    <3> QED BY <1>1, <1>2, <2>2, <3>1 DEF FlashTypeOK
  <2>4. CASE op.kind = "add"
    <3>1. q = p
      BY <2>1, <2>4, TargetIs
    <3>2. ~Whole(p, e)
      <4>1. pc = "obj_epoch" => TargetObj = BlankObj
        BY <1>6, <2>2, TargetFacts DEF Ready, Sound, InOrder, TargetObj
      <4>2. pc # "obj_epoch" => TargetObj = Written
        BY <1>6 DEF FlashInv, TargetInv
      <4>3. TargetObj.count = Blank
        BY <4>1, <4>2 DEF BlankObj, Written
      <4> QED BY <2>1, <3>1, <4>3 DEF TargetObj, Whole
    <3>3. pc # "obj_count"
      BY <2>2, <2>4
    <3>4. w.count = Blank
      <4>1. TornWords.count = Blank
        BY DEF TornWords
      <4>2. Words(pc).count = Blank
        BY <1>6, <3>3 DEF Words, ObjPc
      <4> QED BY <2>2, <4>1, <4>2
    <3>5. obj'[p][e].count = Blank /\ \A i \in Entry : i # e => obj'[p][i] = obj[p][i]
      BY <1>1, <2>2, <3>1, <3>4 DEF FlashTypeOK
    <3> QED BY <3>2, <3>5 DEF Whole
  <2> QED BY <2>3, <2>4
<1> QED BY <1>3, <1>4, <1>5, <1>6

(***************************************************************************)
(* The directory names exactly the latest entries, and a copy exactly the  *)
(* entries to keep, while every error of the driver is reported as one.    *)
(***************************************************************************)
ExactInv == ~dirBad /\ DirExact /\ CopyExact /\ DestroyDone

\* The directory was read from the partition ...
LEMMA ExactRead ==
  ASSUME FlashTypeOK, NEW p \in Part, Sound(p), dir' = ReadDirectory(p), obj' = obj, active' = p,
         ~dirBad'
  PROVE  DirExact'
<1> DEFINE d == dir'
<1>1. /\ \A i \in Entry : i >= d.next => obj[p][i] = BlankObj
      /\ \A i \in Entry : d.objects[i].status = "USED" <=> Latest(p, i)
  BY DirectoryRead
<1> HIDE DEF d
<1>2. \A i : Latest(p, i)' <=> Latest(p, i)
  BY DEF Latest, Whole
<1>3. \A i \in Entry : i >= d.next => ~Whole(p, i)'
  BY <1>1 DEF BlankObj, Whole
<1>4. \A i \in Entry : d.objects[i].status = "USED" <=> Latest(p, i)'
  BY <1>1, <1>2
<1> QED BY <1>3, <1>4 DEF DirExact, d, Latest, Whole

\* ... and stays exact while the complete entries stay the same ...
LEMMA ExactKept ==
  ASSUME DirExact, Running, dir' = dir, active' = active, ~dirBad', active \in Part,
         \A i \in Entry : /\ obj'[active][i].count # Blank <=> Whole(active, i)
                          /\ Whole(active, i) => obj'[active][i].meta = obj[active][i].meta
  PROVE  DirExact'
BY DEF DirExact, Latest, Whole

\* ... or when AddObject adds one to both.
LEMMA ExactAppended ==
  ASSUME HeaderInv, FlashInv, ExactInv, pc = "obj_count", op.kind = "add", Ready, Write,
         dir' = Appended, active' = active, ~dirBad', NEW p \in Part, p = active
  PROVE  /\ DirExact'
         /\ obj'[p][dir.next].meta = Target.meta
         /\ \A i \in Entry : i # dir.next => obj'[p][i] = obj[p][i]
         /\ \A i \in Entry : Whole(p, i)' <=> i = dir.next \/ Whole(p, i)
         /\ \A i \in Entry : i >= dir.next => ~Whole(p, i)
         /\ dir.next \in Entry
<1>0. PICK e \in Entry : e = dir.next
  BY TargetFacts, TargetIs DEF ObjPc
<1>1. /\ Running /\ ~dirBad /\ Sound(p)
      /\ Target.part = p /\ Target.entry = e /\ Target.start = dir.data
      /\ Target.meta = [id |-> op.id, val |-> op.val]
      /\ e \in Entry /\ dir.data \in Nat /\ Target.meta \in Meta /\ Length \in Nat
      /\ dir.data + Length <= DataUnits /\ DirTyped /\ DirInv /\ FlashTypeOK
  BY <1>0, TargetFacts, TargetIs DEF ObjPc, FlashInv, TargetInv
<1>2. obj' = [obj EXCEPT ![p][e] = Words(pc)]
  BY <1>1, ObjWrite DEF ObjPc
<1>3. Words(pc).meta = Target.meta /\ Words(pc).count = Length
  BY <1>1 DEF Words
<1>4. obj'[p][e] = Words(pc) /\ \A i \in Entry : i # e => obj'[p][i] = obj[p][i]
  BY <1>1, <1>2 DEF FlashTypeOK
<1> DEFINE a == dir'
<1>5. /\ a.next = e + 1
      /\ a.objects[e] = [status |-> "USED", meta |-> Target.meta, start |-> dir.data,
                                count |-> Length]
      /\ \A i \in Entry : i # e =>
              \/ a.objects[i] = dir.objects[i]
              \/ i \in Find(dir, op.id) /\ a.objects[i].status = "DATA_BAD"
      /\ Find(dir, op.id) # {} => \E i \in Find(dir, op.id) : a.objects[i].status = "DATA_BAD"
  BY <1>0, <1>1, AppendedIs
<1> HIDE DEF a
<1>6. /\ \A i \in Entry : dir.objects[i].status = "USED" <=> Latest(p, i)
      /\ \A i \in Entry : i >= e => ~Whole(p, i)
  BY <1>0, <1>1 DEF ExactInv, DirExact
<1>7. Length # Blank
  BY <1>1, WordAssumption
<1>8. \A i \in Entry : Whole(p, i)' <=> i = e \/ Whole(p, i)
  BY <1>3, <1>4, <1>7 DEF Whole
<1>9. \A i \in Entry : i \in Nat /\ (i >= a.next => i >= e /\ i # e)
  BY <1>1, <1>5, Indices
<1>10. \A i \in Entry : Latest(p, i)' <=>
         i = e \/ (Latest(p, i) /\ obj[p][i].meta.id # op.id)
  <2> SUFFICES ASSUME NEW i \in Entry
               PROVE  Latest(p, i)' <=> i = e \/ (Latest(p, i) /\ obj[p][i].meta.id # op.id)
    OBVIOUS
  <2>1. Target.meta.id = op.id /\ obj'[p][e].meta = Target.meta
    BY <1>1, <1>3, <1>4
  <2>2. CASE i = e
    <3>1. \A j \in Entry : j > i => ~Whole(p, j)'
      BY <1>1, <1>6, <1>8, <1>9, <2>2
    <3>2. Whole(p, i)'
      BY <1>8, <2>2
    <3>3. Latest(p, i)'
      BY <3>1, <3>2, Zenon DEF Latest
    <3> QED BY <2>2, <3>3
  <2>3. CASE i # e
    <3>1. obj'[p][i] = obj[p][i] /\ (Whole(p, i)' <=> Whole(p, i))
      BY <1>4, <1>8, <2>3
    <3>2. Whole(p, i) => e > i
      BY <1>1, <1>6, <1>9
    <3>3. \A j \in Entry : j # e => obj'[p][j] = obj[p][j] /\ (Whole(p, j)' <=> Whole(p, j))
      BY <1>4, <1>8
    <3>4. ~Whole(p, e) /\ Whole(p, e)'
      <4>1. e >= e
        BY <1>1, Indices
      <4> QED BY <1>1, <1>6, <1>8, <4>1
    <3>5. ASSUME Latest(p, i), obj[p][i].meta.id # op.id
          PROVE  Latest(p, i)'
      <4>1. Whole(p, i)'
        BY <3>1, <3>5 DEF Latest
      <4>2. ASSUME NEW j \in Entry, j > i, Whole(p, j)'
            PROVE  obj'[p][j].meta.id # obj'[p][i].meta.id
        <5>1. CASE j = e
          BY <2>1, <3>1, <3>5, <5>1
        <5>2. CASE j # e
          BY <3>1, <3>3, <3>5, <4>2, <5>2 DEF Latest
        <5> QED BY <5>1, <5>2
      <4> QED BY <4>1, <4>2 DEF Latest
    <3>6. ASSUME Latest(p, i)'
          PROVE  Latest(p, i) /\ obj[p][i].meta.id # op.id
      <4>1. Whole(p, i) /\ Whole(p, i)' /\ e > i
        BY <3>1, <3>2, <3>6 DEF Latest
      <4>2. obj'[p][e].meta.id # obj'[p][i].meta.id
        BY <1>1, <3>4, <3>6, <4>1 DEF Latest
      <4>3. ASSUME NEW j \in Entry, j > i, Whole(p, j)
            PROVE  obj[p][j].meta.id # obj[p][i].meta.id
        <5>1. j # e
          BY <3>4, <4>3
        <5>2. obj'[p][j].meta.id # obj'[p][i].meta.id
          BY <3>3, <3>6, <4>3, <5>1 DEF Latest
        <5> QED BY <3>1, <3>3, <5>1, <5>2
      <4> QED BY <2>1, <3>1, <4>1, <4>2, <4>3 DEF Latest
    <3> QED BY <2>3, <3>5, <3>6
  <2> QED BY <2>2, <2>3
<1>11. \A i \in Entry : i # e => (i \in Find(dir, op.id) <=> Latest(p, i) /\ obj[p][i].meta.id = op.id)
  <2> SUFFICES ASSUME NEW i \in Entry, i # e
               PROVE  i \in Find(dir, op.id) <=> Latest(p, i) /\ obj[p][i].meta.id = op.id
    OBVIOUS
  <2>1. dir.objects[i].status = "USED" => dir.objects[i].meta = obj[p][i].meta /\ i < e
    BY <1>0, <1>1, UsedEntry
  <2>2. i \in Nat /\ i >= 1 /\ e \in Nat
    BY <1>1, Indices
  <2> QED BY <1>0, <1>6, <2>1, <2>2 DEF Find
<1>12. \A i \in Entry : a.objects[i].status = "USED" <=> Latest(p, i)'
  <2> SUFFICES ASSUME NEW i \in Entry
               PROVE  a.objects[i].status = "USED" <=> Latest(p, i)'
    OBVIOUS
  <2>1. CASE i = e
    <3>1. a.objects[e].status = "USED"
      BY <1>5
    <3>2. Latest(p, i)'
      BY <1>10, <2>1
    <3> QED BY <2>1, <3>1, <3>2
  <2>2. CASE i # e /\ i \in Find(dir, op.id)
    <3>1. PICK j \in Find(dir, op.id) : a.objects[j].status = "DATA_BAD"
      BY <1>5, <2>2
    <3>2. j \in Entry /\ j # e
      BY <1>0, <1>1, Indices DEF Find, Entry
    <3>3. j = i
      BY <1>11, <2>2, <3>1, <3>2, LatestUnique
    <3> QED BY <1>10, <1>11, <2>2, <3>1, <3>3
  <2>3. CASE i # e /\ i \notin Find(dir, op.id)
    BY <1>5, <1>6, <1>10, <1>11, <2>3
  <2> QED BY <2>1, <2>2, <2>3
<1>13. \A i \in Entry : i >= a.next => ~Whole(p, i)'
  BY <1>6, <1>8, <1>9
<1>14. DirExact'
  BY <1>12, <1>13 DEF DirExact, a, Latest, Whole
<1> QED BY <1>0, <1>1, <1>3, <1>4, <1>6, <1>8, <1>14

\* While the store runs, a step other than the last one of AddObject leaves the
\* complete entries of the partition in use as they are.
LEMMA ActiveSame ==
  ASSUME WritesReported, HeaderInv, FlashInv, Next, Running, ~(ObjCount /\ op.kind = "add"),
         NEW p \in Part, p = active
  PROVE  \A i \in Entry : /\ Whole(p, i)' <=> Whole(p, i)
                          /\ Whole(p, i) => obj'[p][i].meta = obj[p][i].meta
<1> SUFFICES \/ Ready /\ Write /\ ~(pc = "obj_count" /\ op.kind = "add")
             \/ Ready /\ PartialWrite
             \/ UNCHANGED flash
  BY ActiveKept DEF Running
<1>1. CASE FlashError
  BY <1>1, EraseReady DEF FlashError, WritesReported
<1>2. CASE SrcErase
  BY <1>2, EraseReady DEF SrcErase, ErasePc
<1>3. CASE Reset
  BY <1>3 DEF Reset
<1>4. CASE InitStep \/ DstStep \/ ObjStep \/ ObjCount \/ DstCount
  BY <1>4 DEF InitStep, DstStep, ObjStep, ObjCount, DstCount, Running
<1>5. CASE InitFlash \/ DstReread \/ DstRereadError \/ RefuseBad
  BY <1>5 DEF InitFlash, DstReread, DstRereadError, RefuseBad, Return
<1>6. CASE \/ \E id \in Id, v \in Val : AddObject(id, v)
           \/ \E v \in Val : AddNoSpace(v)
           \/ \E ids \in SUBSET Id : DestroyObjects(ids) \/ DestroyNothing(ids)
  BY <1>6 DEF AddObject, AddNoSpace, DestroyObjects, DestroyNothing, Return
<1> QED BY <1>1, <1>2, <1>3, <1>4, <1>5, <1>6 DEF Next

\* Which steps change the directory, and which lead to the switch of partitions.
LEMMA DirChanges ==
  ASSUME WritesReported, HeaderInv, ExactInv, Next
  PROVE  /\ ~dirBad'
         /\ \/ dir' = dir /\ active' = active /\ (Running' => Running)
            \/ InitFlash
            \/ InitStep /\ pc = "init_count"
            \/ ObjCount /\ op.kind = "add"
            \/ DstReread
            \/ ~Running'
         /\ pc' = "dst_reread" => DstCount
         /\ pc' = "src_erase" => DstReread
<1>0. ~dirBad /\ "reread" \notin Faults
  BY DEF ExactInv, WritesReported
<1>1. CASE InitFlash \/ DstReread
  BY <1>0, <1>1 DEF InitFlash, DstReread
<1>2. CASE InitStep
  BY <1>0, <1>2 DEF InitStep, InitPc, Running
<1>3. CASE \/ \E id \in Id, v \in Val : AddObject(id, v)
           \/ \E v \in Val : AddNoSpace(v)
           \/ \E ids \in SUBSET Id : DestroyObjects(ids) \/ DestroyNothing(ids)
           \/ RefuseBad
  BY <1>0, <1>3 DEF AddObject, AddNoSpace, DestroyObjects, DestroyNothing, RefuseBad, Return, ram,
     Running, InitPc
<1>4. CASE DstStep
  BY <1>0, <1>4 DEF DstStep, StartCopy, ram, Running, InitPc
<1>5. CASE ObjStep
  BY <1>0, <1>5 DEF ObjStep, ObjPc, ram, Running, InitPc
<1>6. CASE ObjCount
  BY <1>0, <1>6 DEF ObjCount, StartCopy, Finish, Running, InitPc
<1>7. CASE DstCount \/ SrcErase
  BY <1>0, <1>7 DEF DstCount, SrcErase, Finish, ram, Running, InitPc
<1>8. CASE DstRereadError
  BY <1>0, <1>8 DEF DstRereadError
<1>9. CASE FlashError
  <2>1. dir' = dir /\ active' = active /\ dirBad' = dirBad
    BY <1>9 DEF FlashError, ram
  <2>2. pc' = "off" \/ (pc' = "idle" /\ pc \notin InitPc /\ pc # "off")
    BY <1>9 DEF FlashError, Finish, WritePc
  <2> QED BY <1>0, <2>1, <2>2 DEF Running, InitPc
<1>10. CASE Reset
  BY <1>10 DEF Reset, Running
<1> QED
  BY <1>1, <1>2, <1>3, <1>4, <1>5, <1>6, <1>7, <1>8, <1>9, <1>10 DEF Next

\* The directory stays exact.
LEMMA DirExactStep ==
  ASSUME WritesReported, HeaderInv, HeaderInv', FlashInv, ExactInv, Next
  PROVE  DirExact'
<1> SUFFICES ASSUME Running' PROVE DirExact'
  BY DEF DirExact
<1>1. /\ active \in Part /\ Other(active) \in Part /\ FlashTypeOK /\ ~dirBad'
  BY PartFacts, DirChanges DEF HeaderInv, HeaderTypeOK, ControlTypeOK, FlashInv
<1>2. CASE dir' = dir /\ active' = active /\ Running /\ ~(ObjCount /\ op.kind = "add")
  <2>1. PICK p \in Part : p = active
    BY <1>1
  <2>2. \A i \in Entry : /\ Whole(p, i)' <=> Whole(p, i)
                         /\ Whole(p, i) => obj'[p][i].meta = obj[p][i].meta
    BY <1>2, <2>1, ActiveSame
  <2> QED BY <1>1, <1>2, <2>1, <2>2, ExactKept DEF ExactInv, Whole
<1>3. CASE InitFlash
  <2>1. pc' # "init_erase" /\ obj' = obj /\ hdr' = hdr
    BY <1>3 DEF InitFlash, flash, Running, InitPc
  <2>2. PICK p : active' = p /\ dir' = ReadDirectory(p)
    BY <1>3, <2>1 DEF InitFlash
  <2>3. p \in Part /\ HdrStatus(p)' = "USED"
    BY <2>2 DEF HeaderInv, HeaderTypeOK, ControlTypeOK, ActiveUsed
  <2>4. HdrStatus(p) = "USED"
    BY <2>1, <2>3 DEF HdrStatus
  <2>5. Sound(p)
    BY <2>3, <2>4 DEF FlashInv, SoundInv
  <2> QED BY <1>1, <2>1, <2>2, <2>3, <2>5, ExactRead
<1>4. CASE InitStep /\ pc = "init_count"
  <2>1. /\ Write /\ active' = active /\ active = 0 /\ dir' = ReadDirectory(active) /\ Empty(0)
    BY <1>4 DEF InitStep, HeaderInv, FormatProgress, InitPc, FlashInv, SoundInv
  <2>2. obj' = obj
    BY <1>4, <2>1 DEF Write, ObjPc, ProgramHdr, ProgramHdrCount
  <2> QED BY <1>1, <2>1, <2>2, EmptySound, ExactRead
<1>5. CASE ObjCount /\ op.kind = "add"
  <2>1. /\ pc = "obj_count" /\ Ready /\ Write /\ active' = active /\ dir' = Appended
    BY <1>5 DEF ObjCount
  <2> QED BY <1>1, <1>5, <2>1, ExactAppended
<1>6. CASE DstReread
  <2>1. /\ pc = "dst_reread" /\ dir' = ReadDirectory(Other(active)) /\ active' = Other(active)
        /\ obj' = obj
    BY <1>6 DEF DstReread, flash
  <2>2. hdr[Other(active)] = Hdr(epoch + 1, TRUE, TRUE) /\ epoch + 1 # Blank
    BY <2>1, WordAssumption DEF HeaderInv, CopyProgress, HeaderTypeOK, ControlTypeOK
  <2>3. HdrStatus(Other(active)) = "USED"
    BY <1>1, <2>2, UsedMeans DEF Hdr
  <2>4. Sound(Other(active))
    BY <1>1, <2>3 DEF FlashInv, SoundInv
  <2> QED BY <1>1, <2>1, <2>4, ExactRead
<1> QED BY <1>2, <1>3, <1>4, <1>5, <1>6, DirChanges

\* What was copied stays copied while its entries stay the same ...
LEMMA CopiedKept ==
  ASSUME NEW q \in Part, NEW s \in Slot, NEW e \in Slot, Copied(q, s, e), dir' = dir, op' = op,
         \A i \in Entry : /\ Whole(q, i)' <=> Whole(q, i)
                          /\ Whole(q, i) => obj'[q][i].meta = obj[q][i].meta
  PROVE  Copied(q, s, e)'
<1>1. \A i \in 1..(e - 1) : i \in Entry
  BY Indices DEF Slot, Entry
<1>2. \A j : Kept(j)' <=> Kept(j)
  BY DEF Kept
<1> QED BY <1>1, <1>2 DEF Copied

\* ... and one more object is copied with the last word of its entry.
LEMMA CopiedMore ==
  ASSUME NEW q \in Part, NEW s \in Entry, NEW e \in Entry, NEW t \in Slot, Copied(q, s, e),
         Kept(s), dir' = dir, op' = op, s + 1 <= t,
         \A j \in Entry : s + 1 <= j /\ j < t => ~Kept(j),
         Whole(q, e)', obj'[q][e].meta = dir.objects[s].meta,
         \A i \in Entry : i # e => obj'[q][i] = obj[q][i]
  PROVE  Copied(q, t, e + 1)'
<1>0. /\ ObjectCount \in Nat /\ e \in 1..ObjectCount /\ s \in 1..ObjectCount
      /\ t \in 1..(ObjectCount + 1) /\ Entry = 1..ObjectCount
  BY Indices DEF Slot, Entry
<1>1. /\ e \in Nat /\ (e + 1) - 1 = e /\ e \in 1..e /\ s \in 1..(t - 1)
      /\ \A i \in 1..e : i \in Entry /\ (i = e \/ i \in 1..(e - 1))
      /\ \A j \in 1..(t - 1) : j = s \/ j \in 1..(s - 1) \/ (j \in Entry /\ s + 1 <= j /\ j < t)
      /\ \A j \in 1..(s - 1) : j \in 1..(t - 1)
      /\ \A i \in 1..(e - 1) : i \in 1..e /\ i # e /\ i \in Entry
      /\ \A i \in Entry : i >= e + 1 => i >= e /\ i # e
  <2>1. e \in Nat /\ (e + 1) - 1 = e /\ e \in 1..e /\ s \in 1..(t - 1)
    BY <1>0
  <2>2. \A i \in 1..e : i \in Entry /\ (i = e \/ i \in 1..(e - 1))
    BY <1>0
  <2>3. \A j \in 1..(t - 1) : j = s \/ j \in 1..(s - 1) \/ (j \in Entry /\ s + 1 <= j /\ j < t)
    BY <1>0
  <2>4. \A j \in 1..(s - 1) : j \in 1..(t - 1)
    BY <1>0
  <2>5. \A i \in 1..(e - 1) : i \in 1..e /\ i # e /\ i \in Entry
    BY <1>0
  <2>6. \A i \in Entry : i >= e + 1 => i >= e /\ i # e
    BY <1>0
  <2> QED BY <2>1, <2>2, <2>3, <2>4, <2>5, <2>6
<1>2. \A j : Kept(j)' <=> Kept(j)
  BY DEF Kept
<1>3. \A i \in Entry : i # e => (Whole(q, i)' <=> Whole(q, i))
  BY DEF Whole
<1>4. ASSUME NEW i \in 1..e
      PROVE  /\ Whole(q, i)'
             /\ \E j \in 1..(t - 1) : Kept(j)' /\ obj'[q][i].meta = dir'.objects[j].meta
  <2>1. CASE i = e
    BY <1>1, <1>2, <2>1
  <2>2. CASE i # e
    <3>1. i \in 1..(e - 1) /\ i \in Entry
      BY <1>1, <2>2
    <3>2. Whole(q, i) /\ \E j \in 1..(s - 1) : Kept(j) /\ obj[q][i].meta = dir.objects[j].meta
      BY <3>1 DEF Copied
    <3>3. obj'[q][i] = obj[q][i]
      BY <2>2, <3>1
    <3> QED BY <1>1, <1>2, <1>3, <2>2, <3>1, <3>2, <3>3
  <2> QED BY <2>1, <2>2
<1>5. ASSUME NEW j \in 1..(t - 1), Kept(j)'
      PROVE  \E i \in 1..e : obj'[q][i].meta = dir'.objects[j].meta
  <2>1. CASE j = s
    BY <1>1, <2>1
  <2>2. CASE j \in 1..(s - 1)
    <3>1. PICK i \in 1..(e - 1) : obj[q][i].meta = dir.objects[j].meta
      BY <1>2, <1>5, <2>2 DEF Copied
    <3> QED BY <1>1, <3>1
  <2>3. CASE j \in Entry /\ s + 1 <= j /\ j < t
    BY <1>2, <1>5, <2>3
  <2> QED BY <1>1, <2>1, <2>2, <2>3
<1>6. \A i \in Entry : i >= e + 1 => ~Whole(q, i)'
  BY <1>1, <1>3 DEF Copied
<1> QED BY <1>1, <1>4, <1>5, <1>6 DEF Copied

\* A copy stays exact.
LEMMA CopyExactStep ==
  ASSUME WritesReported, HeaderInv, FlashInv, ExactInv, Next
  PROVE  CopyExact'
<1> SUFFICES ASSUME \/ pc' \in {"dst_count", "dst_reread"}
                    \/ pc' \in ObjPc /\ op'.kind = "destroy"
             PROVE  CopyExact'
  BY DEF CopyExact
<1>0. /\ active \in Part /\ Other(active) \in Part /\ Other(active) # active /\ FlashTypeOK
      /\ 1 \in Slot /\ ObjectCount + 1 \notin Entry /\ \A s \in Slot : s # ObjectCount + 1 => s \in Entry
      /\ \A s \in Slot : s <= ObjectCount <=> s # ObjectCount + 1
      /\ "dst_count" \notin ObjPc /\ "obj_epoch" \in ObjPc /\ "dst_reread" \notin ObjPc
      /\ \A e \in Entry : e \in Slot /\ e + 1 \in Slot
  BY PartFacts, Indices DEF HeaderInv, HeaderTypeOK, ControlTypeOK, FlashInv, Slot, Entry, ObjPc
<1> PICK q \in Part : q = Other(active)
  BY <1>0
<1>1. CASE DstStep /\ pc = "dst_start"
  <2>1. /\ obj' = obj /\ active' = active /\ dir' = dir /\ op' = op
        /\ Empty(q)
    BY <1>1 DEF DstStep, Write, ProgramHdrStart, ProgramHdr, ObjPc, ram, FlashInv, SoundInv
  <2>2. PICK s : s = NextSource(op.ids, 1)
    OBVIOUS
  <2>3. /\ cp' = [src |-> s, entry |-> 1, data |-> 0]
        /\ pc' = IF s <= ObjectCount THEN "obj_epoch" ELSE "dst_count"
    BY <1>1, <2>2 DEF DstStep, StartCopy
  <2>4. /\ s \in Slot /\ 1 <= s
        /\ s # ObjectCount + 1 => Kept(s)
        /\ \A j \in Entry : 1 <= j /\ j < s => ~Kept(j)
    BY <1>0, <2>2, NextSourceIs DEF Kept
  <2>5. \A j \in 1..(s - 1) : j \in Entry /\ 1 <= j /\ j < s
    BY <2>4, Indices DEF Slot, Entry
  <2>6. \A i \in Entry : ~Whole(q, i)
    BY <2>1 DEF Empty, Whole, BlankObj
  <2>7. Copied(q, s, 1)'
    <3>1. \A j : Kept(j)' <=> Kept(j)
      BY <2>1 DEF Kept
    <3>2. \A i : Whole(q, i)' <=> Whole(q, i)
      BY <2>1 DEF Whole
    <3>3. \A i \in 1..(1 - 1) : FALSE
      OBVIOUS
    <3> QED BY <2>4, <2>5, <2>6, <3>1, <3>2, <3>3 DEF Copied
  <2>8. q = Other(active)' /\ (Kept(s)' <=> Kept(s))
    BY <2>1 DEF Kept
  <2> QED BY <1>0, <2>3, <2>4, <2>7, <2>8 DEF CopyExact
<1>2. CASE ObjStep
  <2>1. /\ pc \in ObjPc \ {"obj_count"} /\ pc' \in ObjPc /\ Ready /\ Write /\ op.kind = "destroy"
        /\ active' = active /\ dir' = dir /\ op' = op /\ cp' = cp
    BY <1>0, <1>2 DEF ObjStep, ram, ObjPc
  <2>2. /\ cp.src \in Slot /\ cp.entry \in Slot /\ cp.entry <= cp.src /\ Kept(cp.src)
        /\ Copied(q, cp.src, cp.entry)
    BY <2>1 DEF ExactInv, CopyExact
  <2>3. PICK e \in Entry : e = cp.entry /\ Target.part = q /\ Target.entry = e
    BY <2>1, TargetFacts, TargetIs
  <2>4. \A i \in Entry : /\ Whole(q, i)' <=> Whole(q, i)
                         /\ Whole(q, i) => obj'[q][i].meta = obj[q][i].meta
    <3>1. CASE pc = "obj_data"
      <4>1. obj' = obj
        BY <2>1, <3>1 DEF Write, ProgramData
      <4> QED BY <4>1 DEF Whole
    <3>2. CASE pc # "obj_data"
      <4>1. PICK w \in {Words(pc)} : obj' = [obj EXCEPT ![q][e] = w]
        BY <2>1, <2>3, <3>2, ObjWrite
      <4>2. w.count = Blank
        BY <2>1, <3>2, <4>1 DEF Words, ObjPc
      <4>3. obj'[q][e].count = Blank /\ \A i \in Entry : i # e => obj'[q][i] = obj[q][i]
        BY <1>0, <4>1, <4>2 DEF FlashTypeOK
      <4>4. ~Whole(q, e)
        <5>1. e >= e
          BY Indices
        <5> QED BY <2>2, <2>3, <5>1 DEF Copied
      <4> QED BY <4>3, <4>4 DEF Whole
    <3> QED BY <3>1, <3>2
  <2>5. PICK s \in Slot, f \in Slot : s = cp.src /\ f = cp.entry
    BY <2>2
  <2>6. Copied(q, s, f)'
    BY <2>1, <2>2, <2>4, <2>5, CopiedKept
  <2>7. q = Other(active)' /\ (Kept(s)' <=> Kept(s)) /\ s = cp'.src /\ f = cp'.entry
    BY <2>1, <2>5 DEF Kept
  <2>8. pc' \notin {"dst_count", "dst_reread"}
    BY <1>0, <2>1
  <2> QED BY <2>2, <2>5, <2>6, <2>7, <2>8 DEF CopyExact
<1>3. CASE ObjCount /\ op.kind # "add"
  <2>1. /\ pc = "obj_count" /\ pc \in ObjPc /\ Ready /\ Write /\ op.kind = "destroy"
        /\ active' = active /\ dir' = dir /\ op' = op
    BY <1>3, TargetFacts, KindFacts DEF ObjCount, ObjPc
  <2>2. /\ cp.src \in Slot /\ cp.entry \in Slot /\ cp.entry <= cp.src /\ Kept(cp.src)
        /\ Copied(q, cp.src, cp.entry)
    BY <2>1 DEF ExactInv, CopyExact
  <2>3. /\ cp.src \in Entry /\ cp.entry \in Entry /\ Target.part = q /\ Target.entry = cp.entry
        /\ Target.meta = dir.objects[cp.src].meta /\ Length \in Nat
    BY <2>1, TargetFacts, TargetIs DEF FlashInv, TargetInv
  <2>4. PICK s \in Entry, e \in Entry : s = cp.src /\ e = cp.entry
    BY <2>3
  <2>5. PICK t : t = NextSource(op.ids, s + 1)
    OBVIOUS
  <2>6. /\ cp'.src = t /\ cp'.entry = e + 1
        /\ pc' = IF t <= ObjectCount THEN "obj_epoch" ELSE "dst_count"
    BY <1>3, <2>4, <2>5 DEF ObjCount, StartCopy
  <2>7. /\ t \in Slot /\ s + 1 <= t
        /\ t # ObjectCount + 1 => Kept(t)
        /\ \A j \in Entry : s + 1 <= j /\ j < t => ~Kept(j)
    BY <1>0, <2>5, NextSourceIs DEF Kept
  <2>8. PICK w \in {Words(pc)} : obj' = [obj EXCEPT ![q][e] = w]
    BY <2>1, <2>3, <2>4, ObjWrite
  <2>9. w.meta = dir.objects[s].meta /\ w.count = Length /\ Length # Blank
    BY <2>1, <2>3, <2>4, <2>8, WordAssumption DEF Words
  <2>10. /\ obj'[q][e] = w
         /\ \A i \in Entry : i # e => obj'[q][i] = obj[q][i]
    BY <1>0, <2>8 DEF FlashTypeOK
  <2>11. Whole(q, e)' /\ obj'[q][e].meta = dir.objects[s].meta
    BY <2>9, <2>10 DEF Whole
  <2>12. Copied(q, t, e + 1)'
    BY <2>1, <2>2, <2>4, <2>7, <2>10, <2>11, CopiedMore
  <2>13. q = Other(active)' /\ (Kept(t)' <=> Kept(t))
    BY <2>1 DEF Kept
  <2>14. e + 1 \in Slot /\ e + 1 <= t
    BY <1>0, <2>2, <2>4, <2>7, Indices DEF Slot
  <2> QED BY <1>0, <2>6, <2>7, <2>12, <2>13, <2>14 DEF CopyExact
<1>4. CASE pc' = "obj_epoch" /\ \E id \in Id, v \in Val : AddObject(id, v)
  <2>1. op'.kind = "add" /\ pc' \notin {"dst_count", "dst_reread"}
    BY <1>4 DEF AddObject
  <2> QED BY <2>1
<1>5. CASE pc' = "dst_reread"
  <2>1. /\ pc = "dst_count" /\ obj' = obj /\ active' = active /\ dir' = dir /\ op' = op /\ cp' = cp
    BY <1>5, DirChanges DEF DstCount, Write, ProgramHdr, ProgramHdrCount, ObjPc, ram
  <2>2. /\ cp.src \in Slot /\ cp.entry \in Slot /\ cp.entry <= cp.src /\ cp.src = ObjectCount + 1
        /\ Copied(q, cp.src, cp.entry)
    BY <2>1 DEF ExactInv, CopyExact
  <2>3. PICK s \in Slot, e \in Slot : s = cp.src /\ e = cp.entry
    BY <2>2
  <2>4. Copied(q, s, e)'
    BY <2>1, <2>2, <2>3, CopiedKept DEF Whole
  <2>5. q = Other(active)' /\ s = cp'.src /\ e = cp'.entry
    BY <2>1, <2>3
  <2> QED BY <1>0, <1>5, <2>2, <2>3, <2>4, <2>5 DEF CopyExact
<1> QED BY <1>1, <1>2, <1>3, <1>4, <1>5, Enters

\* When the new partition is in use, nothing of what was destroyed is in it.
LEMMA DestroyDoneStep ==
  ASSUME WritesReported, HeaderInv, FlashInv, ExactInv, Next
  PROVE  DestroyDone'
<1> SUFFICES ASSUME pc' = "src_erase" PROVE DestroyDone'
  BY DEF DestroyDone
<1>1. /\ pc = "dst_reread" /\ obj' = obj /\ active' = Other(active) /\ op' = op
  BY DirChanges DEF DstReread, flash
<1>2. /\ cp.entry \in Slot /\ cp.src \in Slot /\ Copied(Other(active), cp.src, cp.entry)
  BY <1>1 DEF ExactInv, CopyExact
<1>3. ASSUME NEW i \in Entry, Whole(Other(active), i)
      PROVE  obj[Other(active)][i].meta.id \notin op.ids
  <2>1. i \in 1..(cp.entry - 1)
    BY <1>2, <1>3, Indices DEF Copied, Slot, Entry
  <2> QED BY <1>2, <2>1 DEF Copied, Kept
<1> QED BY <1>1, <1>3 DEF DestroyDone, Whole

\* So the invariant is inductive.
LEMMA ExactStep ==
  ASSUME WritesReported, HeaderInv, HeaderInv', FlashInv, ExactInv, [Next]_vars
  PROVE  ExactInv'
<1>1. CASE Next
  BY <1>1, DirChanges, DirExactStep, CopyExactStep, DestroyDoneStep DEF ExactInv
<1>2. CASE UNCHANGED vars
  <2>1. /\ obj' = obj /\ pc' = pc /\ active' = active /\ dir' = dir /\ dirBad' = dirBad
        /\ cp' = cp /\ op' = op
    BY <1>2 DEF vars
  <2>2. /\ \A p, i : Whole(p, i)' <=> Whole(p, i)
        /\ \A j : Kept(j)' <=> Kept(j)
    BY <2>1 DEF Whole, Kept
  <2>3. DirExact'
    BY <2>1, <2>2 DEF ExactInv, DirExact, Latest, Running
  <2>4. CopyExact'
    BY <2>1, <2>2 DEF ExactInv, CopyExact, Copied
  <2> QED BY <2>1, <2>2, <2>3, <2>4 DEF ExactInv, DestroyDone
<1> QED BY <1>1, <1>2

\* It holds at first.
LEMMA ExactInit == Init => ExactInv
<1> SUFFICES ASSUME Init PROVE ExactInv
  OBVIOUS
<1>1. pc = "off" /\ dirBad = FALSE
  BY DEF Init
<1> QED BY <1>1 DEF ExactInv, DirExact, CopyExact, DestroyDone, Running, ObjPc

(***************************************************************************)
(* The refinement: what callers see and what a reset would find, at each   *)
(* place in the code.                                                      *)
(***************************************************************************)
StoreInv == HeaderInv /\ NewestInv /\ FlashInv /\ ExactInv

\* What callers see: the value of mem in Store.
Mem == IF Running THEN View(active, dir) ELSE NoObjects

\* The partition a reset would choose.
LEMMA ChosenIs ==
  ASSUME HeaderTypeOK, NEW p \in Part, HdrStatus(p) = "USED",
         HdrStatus(Other(p)) = "USED" => hdr[Other(p)].epoch < hdr[p].epoch
  PROVE  Recovered = Holds(p)
<1>1. p \in Used({}) /\ Used({}) \subseteq Part
  BY DEF Used
<1>2. Other(p) \in Part /\ (Used({}) = Part => HdrStatus(Other(p)) = "USED")
  BY PartFacts DEF Used
<1>3. Used({}) = Part => hdr[p].epoch \in Nat /\ hdr[Other(p)].epoch \in Nat
  BY <1>2, NotUsed
<1>4. p \in {0, 1} /\ Other(0) = 1 /\ Other(1) = 0 /\ Part = {0, 1}
  BY DEF Part, Other
<1>5. Choose(Used({})) = p
  <2>1. CASE Used({}) = Part
    BY <1>2, <1>3, <1>4, <2>1 DEF Choose
  <2>2. CASE Used({}) # Part
    <3>1. Used({}) = {p}
      BY <1>1, <1>4, <2>2
    <3>2. \A x \in {p} : x = p
      OBVIOUS
    <3> QED BY <2>2, <3>1, <3>2 DEF Choose
  <2> QED BY <2>1, <2>2
<1> QED BY <1>1, <1>4, <1>5 DEF Recovered

\* Nothing is recovered while no partition is complete.
LEMMA NothingChosen ==
  ASSUME \A p \in Part : HdrStatus(p) # "USED"
  PROVE  Recovered = NoObjects
<1>1. Used({}) = {}
  BY DEF Used
<1> QED BY <1>1 DEF Recovered

\* A complete copy holds what the operation makes of the old partition.
LEMMA CopyHolds ==
  ASSUME StoreInv, pc = "dst_reread"
  PROVE  Holds(Other(active)) = Apply(op, Holds(active))
<1>1. /\ active \in Part /\ Other(active) \in Part /\ FlashTypeOK /\ Running /\ ~dirBad
      /\ DirInv /\ op.kind = "destroy" /\ op.kind # "add"
  BY PartFacts, KindFacts DEF StoreInv, HeaderInv, HeaderTypeOK, ControlTypeOK, OpProgress, DstPc, FlashInv,
     ExactInv, Running, InitPc
<1>2. HdrStatus(Other(active)) = "USED" /\ HdrStatus(active) = "USED"
  <2>1. hdr[Other(active)] = Hdr(epoch + 1, TRUE, TRUE) /\ epoch + 1 # Blank
    <3>1. HeaderInv
      BY DEF StoreInv
    <3>2. epoch + 1 \in Nat
      BY <3>1 DEF HeaderInv, HeaderTypeOK, ControlTypeOK
    <3>3. hdr[Other(active)] = Hdr(epoch + 1, TRUE, TRUE)
      BY <3>1 DEF HeaderInv, CopyProgress
    <3> QED BY <3>2, <3>3, WordAssumption
  <2> QED BY <1>1, <2>1, UsedMeans DEF Hdr, StoreInv, HeaderInv, ActiveUsed
<1> PICK a \in Part, q \in Part : a = active /\ q = Other(active)
  BY <1>1
<1>3. Sound(a) /\ Sound(q)
  BY <1>2 DEF StoreInv, FlashInv, SoundInv
<1>4. Says(a, Holds(a)) /\ Says(q, Holds(q))
  BY <1>1, <1>3, HoldsSays
<1>5. /\ cp.entry \in Slot /\ cp.entry <= cp.src /\ cp.src = ObjectCount + 1
      /\ Copied(q, cp.src, cp.entry)
      /\ \A j \in Entry : dir.objects[j].status = "USED" <=> Latest(a, j)
  BY <1>1 DEF StoreInv, ExactInv, CopyExact, DirExact
<1>6. /\ \A i \in 1..(cp.entry - 1) : i \in Entry
      /\ \A j \in 1..(cp.src - 1) : j \in Entry
      /\ \A j \in Entry : j \in 1..(cp.src - 1)
      /\ \A i \in Entry : i >= cp.entry \/ i \in 1..(cp.entry - 1)
  BY <1>5, Indices DEF Slot, Entry
<1>7. \A j \in Entry : Kept(j) <=> Latest(a, j) /\ obj[a][j].meta.id \notin op.ids
  <2> SUFFICES ASSUME NEW j \in Entry
               PROVE  Kept(j) <=> Latest(a, j) /\ obj[a][j].meta.id \notin op.ids
    OBVIOUS
  <2>1. dir.objects[j].status = "USED" => dir.objects[j].meta = obj[a][j].meta
    BY <1>1, <1>3, UsedEntry
  <2> QED BY <1>5, <2>1 DEF Kept
<1>8. \A j \in Entry : Kept(j) => dir.objects[j].meta = obj[a][j].meta
  BY <1>1, <1>3, UsedEntry DEF Kept
<1> DEFINE c == Apply(op, Holds(a))
<1>9. \A id \in Id : c[id] = IF id \in op.ids THEN None ELSE Holds(a)[id]
  BY <1>1 DEF Apply
<1>10. c \in Contents
  <2>1. c = [id \in Id |-> IF id \in op.ids THEN None ELSE Holds(a)[id]]
    BY <1>1 DEF Apply
  <2>2. Holds(a) \in Contents
    BY <1>4 DEF Says
  <2> QED BY <2>1, <2>2 DEF Contents
<1> HIDE DEF c
<1>11. ASSUME NEW i \in Entry, Latest(q, i)
       PROVE  c[obj[q][i].meta.id] = obj[q][i].meta.val
  <2>1. i \in 1..(cp.entry - 1)
    BY <1>5, <1>6, <1>11 DEF Copied, Latest
  <2>2. PICK j \in 1..(cp.src - 1) : Kept(j) /\ obj[q][i].meta = dir.objects[j].meta
    BY <1>5, <2>1 DEF Copied
  <2>3. j \in Entry /\ Latest(a, j) /\ obj[a][j].meta.id \notin op.ids /\ obj[q][i].meta = obj[a][j].meta
    BY <1>6, <1>7, <1>8, <2>2
  <2>4. obj[a][j].meta.id \in Id
    <3>1. Whole(a, j)
      BY <2>3 DEF Latest
    <3> QED BY <1>1, <1>3, <2>3, <3>1, EntryFacts, FlashTyping
  <2> QED BY <1>4, <1>9, <2>3, <2>4 DEF Says
<1>12. ASSUME NEW id \in Id, \A i \in Entry : Whole(q, i) => obj[q][i].meta.id # id
       PROVE  c[id] = None
  <2>1. CASE id \in op.ids
    BY <1>9, <2>1
  <2>2. CASE id \notin op.ids
    <3>1. ASSUME NEW i \in Entry, Whole(a, i), obj[a][i].meta.id = id
          PROVE  FALSE
      <4>1. PICK j \in Entry : Latest(a, j) /\ obj[a][j].meta.id = id
        BY <3>1, LatestExists
      <4>2. Kept(j) /\ j \in 1..(cp.src - 1) /\ dir.objects[j].meta = obj[a][j].meta
        BY <1>6, <1>7, <1>8, <2>2, <4>1
      <4>3. PICK k \in 1..(cp.entry - 1) : obj[q][k].meta = dir.objects[j].meta
        BY <1>5, <4>2 DEF Copied
      <4>4. Whole(q, k) /\ k \in Entry
        BY <1>5, <1>6, <4>3 DEF Copied
      <4> QED BY <1>12, <4>1, <4>2, <4>3, <4>4
    <3> QED BY <1>4, <1>9, <2>2, <3>1 DEF Says
  <2> QED BY <2>1, <2>2
<1>13. Says(q, c)
  BY <1>10, <1>11, <1>12 DEF Says
<1>14. Holds(q) = c
  BY <1>1, <1>3, <1>4, <1>13, SaysOne
<1> QED BY <1>14 DEF c

\* After a destroy there is nothing of it left to do.
LEMMA DestroyedIs ==
  ASSUME StoreInv, pc = "src_erase"
  PROVE  Apply(op, Holds(active)) = Holds(active)
<1>1. /\ active \in Part /\ FlashTypeOK /\ op.kind # "add" /\ Sound(active)
      /\ \A i \in Entry : Whole(active, i) => obj[active][i].meta.id \notin op.ids
  BY KindFacts DEF StoreInv, HeaderInv, HeaderTypeOK, ControlTypeOK, OpProgress, ActiveUsed, Running,
     InitPc, FlashInv, SoundInv, ExactInv, DestroyDone
<1>2. Says(active, Holds(active))
  BY <1>1, HoldsSays
<1>3. \A id \in Id : id \in op.ids => Holds(active)[id] = None
  BY <1>1, <1>2 DEF Says
<1>4. Holds(active) = [id \in Id |-> Holds(active)[id]]
  BY DEF Holds
<1>5. Apply(op, Holds(active)) = [id \in Id |-> IF id \in op.ids THEN None ELSE Holds(active)[id]]
  BY <1>1 DEF Apply
<1> QED BY <1>3, <1>4, <1>5

\* What the store shows, by the place in the code.
Shows ==
  /\ active \in Part /\ Other(active) \in Part /\ FlashTypeOK
  /\ ~Running => Mem = NoObjects
  /\ Running => Mem = Holds(active) /\ Sound(active)
  /\ Running /\ pc # "dst_reread" => Recovered = Mem
  /\ pc = "dst_reread" => Recovered = Holds(Other(active)) /\ Recovered = Apply(op, Mem)
  /\ pc \in InitPc => Recovered = NoObjects
  /\ pc = "src_erase" => Apply(op, Mem) = Mem
  /\ pc \in {"off", "idle"} \union InitPc => op = NoOp
  /\ pc \in ObjPc \union DstPc \union {"src_erase"} => op \in Ops /\ op # NoOp

\* It does so in every state of the invariant.
LEMMA Shown ==
  ASSUME StoreInv
  PROVE  Shows
<1>1. /\ active \in Part /\ Other(active) \in Part /\ Other(Other(active)) = active
      /\ FlashTypeOK /\ HeaderTypeOK /\ epoch \in Nat
  BY PartFacts DEF StoreInv, HeaderInv, HeaderTypeOK, ControlTypeOK, FlashInv
<1>2. Running => HdrStatus(active) = "USED" /\ hdr[active].epoch = epoch /\ Sound(active)
  BY <1>1 DEF StoreInv, HeaderInv, ActiveUsed, FlashInv, SoundInv
<1>3. Running => Mem = Holds(active)
  BY <1>1, <1>2, ViewIs DEF Mem, StoreInv, FlashInv, ExactInv
<1>4. Running /\ pc # "dst_reread" => Recovered = Holds(active)
  BY <1>1, <1>2, ChosenIs DEF StoreInv, NewestInv
<1>5. pc = "dst_reread" =>
        /\ Running /\ HdrStatus(Other(active)) = "USED"
        /\ hdr[active].epoch < hdr[Other(active)].epoch
  <2> SUFFICES ASSUME pc = "dst_reread"
               PROVE  /\ Running /\ HdrStatus(Other(active)) = "USED"
                      /\ hdr[active].epoch < hdr[Other(active)].epoch
    OBVIOUS
  <2>1. hdr[Other(active)] = Hdr(epoch + 1, TRUE, TRUE) /\ epoch + 1 # Blank
    <3>1. HeaderInv
      BY DEF StoreInv
    <3>2. epoch + 1 \in Nat
      BY <3>1 DEF HeaderInv, HeaderTypeOK, ControlTypeOK
    <3>3. hdr[Other(active)] = Hdr(epoch + 1, TRUE, TRUE)
      BY <3>1 DEF HeaderInv, CopyProgress
    <3> QED BY <3>2, <3>3, WordAssumption
  <2>2. Running
    BY DEF Running, InitPc
  <2>3. hdr[Other(active)].epoch = epoch + 1
    BY <2>1 DEF Hdr
  <2> QED BY <1>1, <1>2, <2>1, <2>2, <2>3, UsedMeans DEF Hdr
<1>6. pc = "dst_reread" => Recovered = Holds(Other(active)) /\ Recovered = Apply(op, Mem)
  BY <1>1, <1>3, <1>5, ChosenIs, CopyHolds
<1>7. pc \in InitPc => Recovered = NoObjects
  <2> SUFFICES ASSUME pc \in InitPc PROVE \A p \in Part : HdrStatus(p) # "USED"
    BY NothingChosen
  <2>1. HdrStatus(0) # "USED" /\ HdrStatus(1) # "USED"
    <3>1. pc \in {"init_epoch", "init_start", "init_count"} => hdr[0].count = FALSE
      BY DEF StoreInv, HeaderInv, FormatProgress, Hdr
    <3> QED BY <3>1, NotUsed, PartFacts DEF StoreInv, HeaderInv, FormatProgress, InitPc
  <2> QED BY <2>1 DEF Part
<1>8. pc = "src_erase" => Apply(op, Mem) = Mem
  BY <1>3, DestroyedIs DEF Running, InitPc
<1>9. NoOp \notin Ops
  BY KindFacts DEF NoOp, Ops, AddOps, DestroyOps
<1>10. /\ pc \in {"off", "idle"} \union InitPc => op = NoOp
       /\ pc \in ObjPc \union DstPc \union {"src_erase"} => op \in Ops /\ op # NoOp
  BY <1>9, KindFacts DEF StoreInv, HeaderInv, OpProgress
<1>11. ~Running => Mem = NoObjects
  BY DEF Mem
<1> QED BY <1>1, <1>2, <1>3, <1>4, <1>5, <1>6, <1>7, <1>8, <1>10, <1>11 DEF Shows

\* The same of the state after a step.
LEMMA ShownNext ==
  ASSUME StoreInv'
  PROVE  Shows'
BY Shown, PTL

\* The abstract operations are the ones of the backend.
LEMMA SameOps ==
  /\ Store!NoOp = NoOp
  /\ Store!NoObjects = NoObjects
  /\ Store!Ops = Ops
  /\ Store!Returns = Returns
  /\ \A o, c : Store!Apply(o, c) = Apply(o, c)
BY DEF Store!NoOp, NoOp, Store!NoObjects, NoObjects, Store!Ops, Ops, Store!AddOps, AddOps,
   Store!DestroyOps, DestroyOps, Store!Returns, Returns, Store!Apply, Apply

\* A step that shows nothing.
LEMMA Unseen ==
  ASSUME Running' <=> Running, op' = op, ret' = ret, Mem' = Mem, Recovered' = Recovered
  PROVE  UNCHANGED Store!storeVars
BY DEF Store!storeVars, Mem, Running

\* What the partition in use holds, under its other name.
ByItsName == \A p : p = active => Holds(p) = Holds(active)

\* It is the same under both.
LEMMA HoldsActive == ByItsName
BY DEF ByItsName

\* What callers see stays while the complete entries in use stay.
LEMMA SeenKept ==
  ASSUME WritesReported, StoreInv, StoreInv', Next, Running, Running', active' = active,
         ~(ObjCount /\ op.kind = "add")
  PROVE  Mem' = Mem
<1>1. Shows /\ Shows'
  BY Shown, ShownNext
<1> PICK p \in Part : p = active
  BY <1>1 DEF Shows
<1>2. \A i \in Entry : /\ Whole(p, i)' <=> Whole(p, i)
                       /\ Whole(p, i) => obj'[p][i].meta = obj[p][i].meta
  BY ActiveSame DEF StoreInv
<1>3. FlashTypeOK /\ FlashTypeOK' /\ Sound(p) /\ Mem = Holds(p)
  BY <1>1 DEF Shows
<1>4. HdrStatus(p)' = "USED"
  BY DEF StoreInv, HeaderInv, ActiveUsed
<1>5. Sound(p)'
  BY <1>4 DEF StoreInv, FlashInv, SoundInv
<1>6. Holds(p)' = Holds(p)
  BY <1>2, <1>3, <1>5, HoldsKept
<1>7. Mem' = Holds(p)'
  <2>1. Mem' = Holds(active)'
    BY <1>1 DEF Shows
  <2>2. ByItsName'
    BY HoldsActive, PTL
  <2>3. p = active'
    OBVIOUS
  <2>4. Holds(p)' = Holds(active)'
    BY <2>2, <2>3 DEF ByItsName
  <2> QED BY <2>1, <2>4
<1> QED BY <1>3, <1>6, <1>7

\* Start-up finds what the flash holds, or formats it as an empty store.
LEMMA BootRefines ==
  ASSUME WritesReported, StoreInv, StoreInv', InitFlash \/ InitStep
  PROVE  Store!Recover \/ UNCHANGED Store!storeVars
<1>1. Shows /\ Shows'
  BY Shown, ShownNext
<1>2. ~Running /\ op' = op /\ ret' = ret /\ Mem = NoObjects
  BY <1>1 DEF InitFlash, InitStep, Running, Shows
<1>3. Recovered' = Recovered
  <2>1. CASE InitFlash
    <3>1. hdr' = hdr /\ obj' = obj /\ dat' = dat
      BY <2>1 DEF InitFlash, flash
    <3>2. Used({})' = Used({})
      BY <3>1 DEF Used, HdrStatus
    <3>3. Choose(Used({}))' = Choose(Used({}))
      BY <3>1 DEF Choose, Used, HdrStatus
    <3>4. Holds(0)' = Holds(0) /\ Holds(1)' = Holds(1)
      BY <3>1 DEF Holds, Complete, Fetch
    <3> QED BY <3>2, <3>3, <3>4 DEF Recovered
  <2>2. CASE InitStep /\ pc # "init_count"
    <3>1. pc \in InitPc /\ pc' \in InitPc
      BY <2>2 DEF InitStep, InitPc
    <3> QED BY <1>1, <3>1 DEF Shows
  <2>3. CASE InitStep /\ pc = "init_count"
    <3>1. /\ Write /\ active' = active /\ active = 0 /\ Empty(0) /\ pc' = "idle" /\ pc \in InitPc
      BY <2>3 DEF InitStep, StoreInv, HeaderInv, FormatProgress, InitPc, FlashInv, SoundInv
    <3>2. obj' = obj
      BY <2>3, <3>1 DEF Write, ObjPc, ProgramHdr, ProgramHdrCount
    <3>3. Recovered' = Holds(active)'
      BY <1>1, <3>1 DEF Shows, Running, InitPc
    <3>4. \A i \in Entry : ~obj[0][i].epoch
      BY <3>1 DEF Empty, BlankObj
    <3>5. Holds(active)' = NoObjects
      BY <3>1, <3>2, <3>4 DEF Holds, Complete, NoObjects
    <3> QED BY <1>1, <3>1, <3>3, <3>5 DEF Shows
  <2> QED BY <2>1, <2>2, <2>3
<1>4. CASE Running'
  <2>1. pc' = "idle"
    BY <1>4 DEF InitFlash, InitStep, InitPc, Running
  <2>2. Mem' = Recovered'
    BY <1>1, <1>4, <2>1 DEF Shows
  <2> QED BY <1>2, <1>3, <1>4, <2>2 DEF Store!Recover, Mem
<1>5. CASE ~Running'
  <2>1. Mem' = NoObjects
    BY <1>1, <1>5 DEF Shows
  <2> QED BY <1>2, <1>3, <1>5, <2>1, Unseen
<1> QED BY <1>4, <1>5

\* A call begins ...
LEMMA CallRefines ==
  ASSUME WritesReported, StoreInv, StoreInv', Next, pc = "idle",
         NEW o \in Ops, pc' \in {"obj_epoch", "dst_erase"}, op' = o, ret' = "NONE", active' = active
  PROVE  Store!Call(o)
<1>1. Shows /\ Shows'
  BY Shown, ShownNext
<1>2. Running /\ Running' /\ pc' # "dst_reread" /\ ~ObjCount
  BY DEF Running, InitPc, ObjCount
<1>3. Mem' = Mem /\ Recovered' = Recovered /\ op = NoOp
  BY <1>1, <1>2, SeenKept DEF Shows
<1> QED BY <1>2, <1>3, SameOps DEF Store!Call, Mem

\* ... or is refused.
LEMMA RefusedRefines ==
  ASSUME WritesReported, StoreInv, StoreInv', Next, pc = "idle", pc' = "idle",
         op' = op, ret' \in Returns, active' = active
  PROVE  Store!Refuse
<1>1. Shows /\ Shows'
  BY Shown, ShownNext
<1>2. Running /\ Running' /\ ~ObjCount
  BY DEF Running, InitPc, ObjCount
<1>3. Mem' = Mem /\ Recovered' = Recovered /\ op = NoOp
  BY <1>1, <1>2, SeenKept DEF Shows
<1> QED BY <1>2, <1>3, SameOps DEF Store!Refuse, Mem

\* Writing an object or a copy shows nothing before its last word.
LEMMA WorkRefines ==
  ASSUME WritesReported, StoreInv, StoreInv', Next,
         DstStep \/ ObjStep \/ (ObjCount /\ op.kind # "add")
  PROVE  UNCHANGED Store!storeVars
<1>1. Shows /\ Shows'
  BY Shown, ShownNext
<1>2. /\ Running /\ Running' /\ pc # "dst_reread" /\ pc' # "dst_reread"
      /\ active' = active /\ op' = op /\ ret' = ret
  <2>1. CASE DstStep
    BY <2>1 DEF DstStep, StartCopy, Running, InitPc, ram
  <2>2. CASE ObjStep
    BY <2>2 DEF ObjStep, ObjPc, Running, InitPc, ram
  <2>3. CASE ObjCount /\ op.kind # "add"
    BY <2>3 DEF ObjCount, StartCopy, Running, InitPc
  <2> QED BY <2>1, <2>2, <2>3
<1>3. ~(ObjCount /\ op.kind = "add")
  BY DEF DstStep, ObjStep, ObjCount
<1>4. Mem' = Mem /\ Recovered' = Recovered
  BY <1>1, <1>2, <1>3, SeenKept DEF Shows
<1> QED BY <1>2, <1>4, Unseen

\* The count word of an entry stores the object, and AddObject has succeeded.
LEMMA AddRefines ==
  ASSUME StoreInv, StoreInv', ObjCount, op.kind = "add"
  PROVE  /\ Store!Succeed
         /\ Mem' = Apply(op, Mem) /\ Recovered' = Mem' /\ Mem \in Contents /\ op \in AddOps
<1>1. Shows /\ Shows'
  BY Shown, ShownNext
<1>2. /\ pc = "obj_count" /\ pc \in ObjPc /\ Ready /\ Write /\ active' = active /\ ~dirBad'
      /\ dir' = Appended /\ pc' = "idle" /\ op' = NoOp /\ ret' = "OK" /\ Running /\ Running'
      /\ HeaderInv /\ FlashInv /\ ExactInv
  BY DEF ObjCount, Finish, Running, InitPc, ObjPc, StoreInv, ExactInv
<1> PICK p \in Part : p = active
  BY <1>1 DEF Shows
<1>3. PICK e \in Entry : e = dir.next
  BY <1>2, ExactAppended
<1>4. /\ obj'[p][e].meta = Target.meta
      /\ \A i \in Entry : i # e => obj'[p][i] = obj[p][i]
      /\ \A i \in Entry : Whole(p, i)' <=> i = e \/ Whole(p, i)
      /\ \A i \in Entry : i >= e => ~Whole(p, i)
  BY <1>2, <1>3, ExactAppended
<1>5. op \in AddOps /\ op.id \in Id /\ op.val \in Val /\ op # NoOp
  BY <1>1, <1>2, KindFacts DEF Shows, AddOps, NoOp
<1>6. obj'[p][e].meta.id = op.id /\ obj'[p][e].meta.val = op.val
  BY <1>4, TargetIs
<1>7. FlashTypeOK /\ FlashTypeOK' /\ Sound(p) /\ Mem = Holds(p) /\ Recovered' = Mem'
  BY <1>1, <1>2 DEF Shows
<1>8. HdrStatus(p)' = "USED"
  BY <1>2 DEF StoreInv, HeaderInv, ActiveUsed
<1>9. Sound(p)'
  BY <1>8 DEF StoreInv, FlashInv, SoundInv
<1>10. Says(p, Mem)
  BY <1>7, HoldsSays
<1>11. (FlashTypeOK /\ Sound(p) => Says(p, Holds(p)))'
  BY HoldsSays, PTL
<1>12. PICK d : d = Mem'
  OBVIOUS
<1>13. Mem' = Holds(p)'
  <2>1. Mem' = Holds(active)'
    BY <1>1, <1>2 DEF Shows
  <2>2. ByItsName'
    BY HoldsActive, PTL
  <2>3. Holds(p)' = Holds(active)'
    BY <1>2, <2>2 DEF ByItsName
  <2> QED BY <2>1, <2>3
<1>14. Says(p, d)'
  BY <1>7, <1>9, <1>11, <1>12, <1>13 DEF Says
<1> DEFINE c == Apply(op, Mem)
<1>15. /\ c \in Contents /\ c[op.id] = op.val
       /\ \A id \in Id : id # op.id => c[id] = Mem[id]
  BY <1>2, <1>5, <1>10 DEF Apply, Says, Contents
<1> HIDE DEF c
<1>16. \A i \in Entry : Whole(p, i) => e > i /\ i # e
  BY <1>4, Indices
<1>17. ASSUME NEW id \in Id
       PROVE  d[id] = c[id]
  <2>1. CASE id = op.id
    <3>1. Whole(p, e)' /\ obj'[p][e].meta.id = id
      BY <1>4, <1>6, <2>1
    <3>2. ASSUME NEW j \in Entry, j > e, Whole(p, j)'
          PROVE  FALSE
      <4>1. j # e /\ j >= e
        BY <3>2, Indices
      <4> QED BY <1>4, <3>2, <4>1
    <3>3. Latest(p, e)'
      BY <3>1, <3>2 DEF Latest
    <3>4. d[obj'[p][e].meta.id] = obj'[p][e].meta.val
      BY <1>14, <3>3 DEF Says
    <3> QED BY <1>6, <1>15, <2>1, <3>4
  <2>2. CASE id # op.id /\ \E i \in Entry : Whole(p, i) /\ obj[p][i].meta.id = id
    <3>1. PICK j \in Entry : Latest(p, j) /\ obj[p][j].meta.id = id
      BY <2>2, LatestExists
    <3>2. Whole(p, j) /\ j # e /\ obj'[p][j] = obj[p][j] /\ Whole(p, j)'
      BY <1>4, <1>16, <3>1 DEF Latest
    <3>3. ASSUME NEW k \in Entry, k > j, Whole(p, k)'
          PROVE  obj'[p][k].meta.id # id
      <4>1. CASE k = e
        BY <1>6, <2>2, <4>1
      <4>2. CASE k # e
        BY <1>4, <3>1, <3>3, <4>2 DEF Latest
      <4> QED BY <4>1, <4>2
    <3>4. Latest(p, j)'
      BY <3>1, <3>2, <3>3 DEF Latest
    <3>5. d[id] = obj[p][j].meta.val
      BY <1>14, <3>1, <3>2, <3>4 DEF Says
    <3>6. Mem[id] = obj[p][j].meta.val
      BY <1>10, <3>1 DEF Says
    <3> QED BY <1>15, <2>2, <3>5, <3>6
  <2>3. CASE id # op.id /\ \A i \in Entry : Whole(p, i) => obj[p][i].meta.id # id
    <3>1. \A i \in Entry : Whole(p, i)' => obj'[p][i].meta.id # id
      BY <1>4, <1>6, <2>3
    <3>2. d[id] = None
      BY <1>14, <3>1 DEF Says
    <3>3. Mem[id] = None
      BY <1>10, <2>3 DEF Says
    <3> QED BY <1>15, <2>3, <3>2, <3>3
  <2> QED BY <2>1, <2>2, <2>3
<1>18. d \in Contents
  BY <1>14 DEF Says
<1>19. Mem' = Apply(op, Mem)
  BY <1>12, <1>15, <1>17, <1>18 DEF Contents, c
<1>20. Mem \in Contents
  BY <1>10 DEF Says
<1>21. Store!Succeed
  BY <1>2, <1>5, <1>7, <1>19, SameOps DEF Store!Succeed, Mem
<1> QED BY <1>5, <1>7, <1>19, <1>20, <1>21

\* The count word of the new header is the instant a destroy is stored ...
LEMMA CommitRefines ==
  ASSUME WritesReported, StoreInv, StoreInv', Next, DstCount
  PROVE  Store!Persist \/ UNCHANGED Store!storeVars
<1>1. Shows /\ Shows'
  BY Shown, ShownNext
<1>2. /\ pc = "dst_count" /\ pc' = "dst_reread" /\ active' = active /\ op' = op /\ ret' = ret
      /\ Running /\ Running' /\ ~ObjCount
  BY DEF DstCount, ObjCount, ram, Running, InitPc
<1>3. Mem' = Mem /\ op # NoOp
  BY <1>1, <1>2, SeenKept DEF Shows, DstPc
<1>4. Recovered' = Apply(op, Mem)
  BY <1>1, <1>2, <1>3 DEF Shows
<1>5. CASE Recovered' = Recovered
  BY <1>2, <1>3, <1>5, Unseen
<1>6. CASE Recovered' # Recovered
  BY <1>2, <1>3, <1>4, <1>6, SameOps DEF Store!Persist, Mem
<1> QED BY <1>5, <1>6

\* ... callers see it once the new partition is in use ...
LEMMA SwitchRefines ==
  ASSUME StoreInv, StoreInv', DstReread
  PROVE  Store!Expose \/ UNCHANGED Store!storeVars
<1>1. Shows /\ Shows'
  BY Shown, ShownNext
<1>2. /\ pc = "dst_reread" /\ pc' = "src_erase" /\ active' = Other(active) /\ op' = op /\ ret' = ret
      /\ hdr' = hdr /\ obj' = obj /\ dat' = dat /\ Running /\ Running'
  BY DEF DstReread, flash, Running, InitPc
<1>3. op # NoOp /\ Recovered = Apply(op, Mem) /\ Mem' = Recovered'
  BY <1>1, <1>2 DEF Shows, DstPc
<1>4. Recovered' = Recovered
  BY <1>2 DEF Recovered, Used, HdrStatus, Choose, Holds, Complete, Fetch
<1>5. CASE Mem' = Mem
  BY <1>2, <1>4, <1>5, Unseen
<1>6. CASE Mem' # Mem
  BY <1>2, <1>3, <1>4, <1>6, SameOps DEF Store!Expose, Mem
<1> QED BY <1>5, <1>6

\* ... and it has succeeded with the old partition erased.
LEMMA EraseRefines ==
  ASSUME WritesReported, StoreInv, StoreInv', Next, SrcErase
  PROVE  Store!Succeed
<1>1. Shows /\ Shows'
  BY Shown, ShownNext
<1>2. /\ pc = "src_erase" /\ pc' = "idle" /\ active' = active /\ op' = NoOp /\ ret' = "OK"
      /\ Running /\ Running' /\ ~ObjCount
  BY DEF SrcErase, ObjCount, Finish, ram, Running, InitPc
<1>3. Mem' = Mem /\ op # NoOp /\ Mem = Apply(op, Mem)
  BY <1>1, <1>2, SeenKept DEF Shows
<1>4. Recovered' = Mem'
  BY <1>1, <1>2 DEF Shows
<1> QED BY <1>2, <1>3, <1>4, SameOps DEF Store!Succeed, Mem

\* An interrupted format leaves no complete partition.
LEMMA FormatCut ==
  ASSUME StoreInv, pc \in InitPc, PartialWrite \/ UNCHANGED flash
  PROVE  Recovered' = Recovered
<1>1. HeaderInv /\ active = 0 /\ HeaderTypeOK
  BY DEF StoreInv, HeaderInv, FormatProgress
<1>2. hdr' = hdr \/ hdr' = [hdr EXCEPT ![active] = BlankHdr]
  BY <1>1, PartialHdr DEF flash, InitPc
<1>3. \A p \in Part : HdrStatus(p) # "USED"
  <2>1. pc \in {"init_epoch", "init_start", "init_count"} => hdr[0].count = FALSE
    BY <1>1 DEF HeaderInv, FormatProgress, Hdr, InitPc
  <2>2. HdrStatus(0) # "USED" /\ HdrStatus(1) # "USED"
    BY <1>1, <2>1, NotUsed, PartFacts DEF HeaderInv, FormatProgress, InitPc
  <2> QED BY <2>2 DEF Part
<1>4. \A p \in Part : HdrStatus(p)' # "USED"
  <2> SUFFICES ASSUME NEW p \in Part PROVE HdrStatus(p)' # "USED"
    OBVIOUS
  <2>1. CASE hdr'[p] = hdr[p]
    BY <1>3, <2>1 DEF HdrStatus
  <2>2. CASE hdr'[p] = BlankHdr
    <3>1. hdr'[p].count = FALSE
      BY <2>2 DEF BlankHdr, Hdr
    <3> QED BY <3>1 DEF HdrStatus, StateStatus
  <2> QED BY <1>1, <1>2, <2>1, <2>2 DEF HeaderTypeOK
<1>5. Recovered = NoObjects
  BY <1>3, NothingChosen
<1>6. ((\A p \in Part : HdrStatus(p) # "USED") => Recovered = NoObjects)'
  BY NothingChosen, PTL
<1> QED BY <1>4, <1>5, <1>6 DEF NoObjects

\* An operation that fails has changed nothing.
LEMMA ErrorRefines ==
  ASSUME WritesReported, StoreInv, StoreInv', Next, FlashError
  PROVE  Store!Fail \/ UNCHANGED Store!storeVars
<1>1. Shows /\ Shows'
  BY Shown, ShownNext
<1>2. /\ active' = active /\ pc \in WritePc /\ pc # "dst_reread" /\ pc # "off" /\ pc # "idle"
      /\ PartialWrite \/ UNCHANGED flash
  BY DEF FlashError, ram, WritePc, WritesReported
<1>3. CASE pc \in InitPc
  <2>1. pc' = "off" /\ op' = op /\ ret' = ret /\ ~Running /\ ~Running'
    BY <1>3 DEF FlashError, Running
  <2>2. Mem' = NoObjects /\ Mem = NoObjects
    BY <1>1, <2>1 DEF Shows
  <2>3. Recovered' = Recovered
    BY <1>2, <1>3, FormatCut
  <2> QED BY <2>1, <2>2, <2>3, Unseen
<1>4. CASE pc \notin InitPc
  <2>1. pc' = "idle" /\ op' = NoOp /\ ret' = "ERROR" /\ Running /\ Running'
    BY <1>2, <1>4 DEF FlashError, Finish, Running, InitPc
  <2>2. ~(ObjCount /\ op.kind = "add")
    BY <2>1 DEF ObjCount, Finish
  <2>3. Mem' = Mem
    BY <1>2, <2>1, <2>2, SeenKept
  <2>4. Recovered' = Recovered
    BY <1>1, <1>2, <2>1, <2>3 DEF Shows
  <2>5. op # NoOp
    BY <1>1, <1>2, <1>4 DEF Shows, WritePc, Pc
  <2> QED BY <2>1, <2>3, <2>4, <2>5, SameOps DEF Store!Fail, Mem
<1> QED BY <1>3, <1>4

\* A reset finds what was stored before.
LEMMA ResetRefines ==
  ASSUME WritesReported, StoreInv, StoreInv', Next, Reset
  PROVE  Store!Reset
<1>1. Shows /\ Shows'
  BY Shown, ShownNext
<1>2. /\ pc # "off" /\ pc' = "off" /\ op' = NoOp /\ ret' = "NONE" /\ ~Running'
      /\ (pc \in WritePc /\ PartialWrite) \/ UNCHANGED flash
  BY DEF Reset, Running
<1>3. Mem' = NoObjects
  BY <1>1, <1>2 DEF Shows
<1>4. Recovered' = Recovered
  <2>1. CASE UNCHANGED flash
    BY <2>1 DEF flash, Recovered, Used, HdrStatus, Choose, Holds, Complete, Fetch
  <2>2. CASE pc \in InitPc
    BY <1>2, <2>2, FormatCut
  <2>3. CASE pc \notin InitPc /\ pc \in WritePc /\ PartialWrite
    <3>1. Running /\ pc # "dst_reread"
      BY <2>3 DEF Running, WritePc
    <3> PICK p \in Part : p = active
      BY <1>1 DEF Shows
    <3>2. /\ HeaderTypeOK /\ HeaderTypeOK' /\ HdrStatus(p) = "USED" /\ epoch \in Nat
          /\ hdr[p].epoch = epoch /\ Other(p) \in Part /\ Other(p) # p
          /\ HdrStatus(Other(p)) = "USED" => hdr[Other(p)].epoch < epoch
      BY <3>1, PartFacts DEF StoreInv, HeaderInv, HeaderTypeOK, ControlTypeOK, ActiveUsed, NewestInv
    <3>3. hdr' = hdr \/ hdr' = [hdr EXCEPT ![Other(p)] = BlankHdr]
      BY <2>3, <3>2, PartialHdr DEF InitPc
    <3>4. hdr'[p] = hdr[p]
      BY <3>2, <3>3 DEF HeaderTypeOK
    <3>5. HdrStatus(p)' = "USED"
      BY <3>2, <3>4 DEF HdrStatus
    <3>6. HdrStatus(Other(p))' = "USED" => hdr'[Other(p)].epoch < hdr'[p].epoch
      <4>1. CASE hdr' = hdr
        BY <3>2, <4>1 DEF HdrStatus
      <4>2. CASE hdr' = [hdr EXCEPT ![Other(p)] = BlankHdr]
        <5>1. hdr'[Other(p)].count = FALSE
          BY <3>2, <4>2 DEF HeaderTypeOK, BlankHdr, Hdr
        <5> QED BY <5>1 DEF HdrStatus, StateStatus
      <4> QED BY <3>3, <4>1, <4>2
    <3>7. (HeaderTypeOK /\ HdrStatus(p) = "USED"
             /\ (HdrStatus(Other(p)) = "USED" => hdr[Other(p)].epoch < hdr[p].epoch)
           => Recovered = Holds(p))'
      BY ChosenIs, PTL
    <3>8. Recovered' = Holds(p)'
      BY <3>2, <3>5, <3>6, <3>7 DEF Other
    <3>9. \A i \in Entry : /\ Whole(p, i)' <=> Whole(p, i)
                           /\ Whole(p, i) => obj'[p][i].meta = obj[p][i].meta
      <4>1. ~ObjCount
        BY <1>2 DEF ObjCount, Finish, StartCopy
      <4> QED BY <3>1, <4>1, ActiveSame DEF StoreInv
    <3>10. FlashTypeOK /\ FlashTypeOK' /\ Sound(p) /\ Recovered = Holds(p)
      BY <1>1, <3>1 DEF Shows
    <3>11. Sound(p)'
      BY <3>5 DEF StoreInv, FlashInv, SoundInv
    <3> QED BY <3>8, <3>9, <3>10, <3>11, HoldsKept
  <2> QED BY <1>2, <2>1, <2>2, <2>3
<1> QED BY <1>2, <1>3, <1>4, SameOps DEF Store!Reset, Mem

\* Both start from an empty store.
LEMMA InitRefines == Init => Store!StoreInit
<1> SUFFICES ASSUME Init PROVE Store!StoreInit
  OBVIOUS
<1>1. \A p \in Part : hdr[p].count = FALSE
  BY DEF Init, BlankHdr, Hdr
<1>2. Recovered = NoObjects
  BY <1>1, NotUsed, NothingChosen
<1>3. ~Running
  BY DEF Init, Running
<1> QED BY <1>2, <1>3, SameOps DEF Init, Store!StoreInit

\* The invariant of the refinement is inductive.
LEMMA StoreInvHolds ==
  ASSUME WritesReported
  PROVE  Spec => []StoreInv
<1>1. HeadersReadable
  BY DEF WritesReported, HeadersReadable
<1>2. Init => NewestInv
  <2> SUFFICES ASSUME Init PROVE NewestInv
    OBVIOUS
  <2>1. hdr[0] = BlankHdr /\ ~Running
    BY PartFacts DEF Init, Running
  <2> QED BY <2>1, NotUsed, PartFacts DEF NewestInv
<1>3. Init => NewestInv /\ ExactInv
  BY <1>2, ExactInit
<1>4. HeaderInv /\ HeaderInv' /\ NewestInv /\ FlashInv /\ ExactInv /\ [Next]_vars
        => NewestInv' /\ ExactInv'
  BY NewestStep, ExactStep
<1> QED BY <1>1, <1>3, <1>4, FlashIsSound, PTL DEF Spec, StoreInv

\* Every step of the backend is a step of the store, or shows nothing.
LEMMA StepRefines ==
  ASSUME WritesReported, StoreInv, StoreInv', [Next]_vars
  PROVE  [Store!StoreNext]_(Store!storeVars)
<1>1. CASE UNCHANGED vars
  BY <1>1 DEF vars, Store!storeVars, Running, View, Find, Fetch, Recovered, Used, HdrStatus, Choose,
     Holds, Complete
<1>2. CASE Next /\ (InitFlash \/ InitStep)
  BY <1>2, BootRefines DEF Store!StoreNext
<1>3. CASE Next /\ \/ \E id \in Id, v \in Val : AddObject(id, v)
                   \/ \E ids \in SUBSET Id : DestroyObjects(ids)
  <2>1. PICK o \in Ops : /\ pc = "idle" /\ pc' \in {"obj_epoch", "dst_erase"} /\ op' = o
                         /\ ret' = "NONE" /\ active' = active
    <3>1. CASE \E id \in Id, v \in Val : AddObject(id, v)
      BY <3>1 DEF AddObject, ram, Ops, AddOps
    <3>2. CASE \E ids \in SUBSET Id : DestroyObjects(ids)
      BY <3>2 DEF DestroyObjects, ram, Ops, DestroyOps
    <3> QED BY <1>3, <3>1, <3>2
  <2>2. Store!Call(o)
    BY <1>3, <2>1, CallRefines
  <2> QED BY <2>2, SameOps DEF Store!StoreNext
<1>4. CASE Next /\ \/ \E v \in Val : AddNoSpace(v)
                   \/ \E ids \in SUBSET Id : DestroyNothing(ids)
                   \/ RefuseBad
  <2>1. /\ pc = "idle" /\ pc' = pc /\ op' = op /\ ret' \in Returns /\ active' = active
    BY <1>4 DEF AddNoSpace, DestroyNothing, RefuseBad, Return, ram, Returns
  <2> QED BY <1>4, <2>1, RefusedRefines DEF Store!StoreNext
<1>5. CASE Next /\ (DstStep \/ ObjStep \/ (ObjCount /\ op.kind # "add"))
  BY <1>5, WorkRefines
<1>6. CASE ObjCount /\ op.kind = "add"
  BY <1>6, AddRefines DEF Store!StoreNext
<1>7. CASE Next /\ (DstCount \/ DstReread \/ SrcErase \/ FlashError \/ Reset)
  BY <1>7, CommitRefines, SwitchRefines, EraseRefines, ErrorRefines, ResetRefines
     DEF Store!StoreNext
<1>8. ~DstRereadError
  BY DEF DstRereadError, WritesReported
<1> QED BY <1>1, <1>2, <1>3, <1>4, <1>5, <1>6, <1>7, <1>8 DEF Next

\* While the driver reports every write that did not complete, and only those,
\* and the flash can be read, the backend is an NVM store: each operation is
\* stored at one instant, success is returned only for what a reset can no
\* longer undo, and a reset at any point finds the operation stored or not begun.
THEOREM StoreRefinement ==
  ASSUME WritesReported
  PROVE  Spec => StoreRefined
<1>1. Init => Store!StoreInit
  BY InitRefines
<1>2. StoreInv /\ StoreInv' /\ [Next]_vars => [Store!StoreNext]_(Store!storeVars)
  BY StepRefines
<1> QED BY <1>1, <1>2, StoreInvHolds, PTL DEF Spec, StoreRefined, Store!StoreSpec

\* So an object whose AddObject returned success is there after a reset.
THEOREM AddsAreDurable ==
  ASSUME WritesReported
  PROVE  Spec => AddIsDurable
<1>1. ASSUME StoreInv, StoreInv', Next, pc = "obj_count", op.kind = "add", ret' = "OK"
      PROVE  Recovered'[op.id] = op.val
  <2>1. ObjCount
    <3>1. ret # "OK" \/ ret = "OK"
      OBVIOUS
    <3>2. ~FlashError /\ ~Reset
      BY <1>1 DEF FlashError, Finish, Reset, InitPc
    <3> QED BY <1>1, <3>2 DEF Next, InitFlash, InitStep, InitPc, AddObject, AddNoSpace, DestroyObjects,
           DestroyNothing, RefuseBad, DstStep, ObjStep, DstCount, DstReread, DstRereadError, SrcErase
  <2>2. Recovered' = Apply(op, Mem) /\ Mem \in Contents /\ op \in AddOps
    BY <1>1, <2>1, AddRefines
  <2> QED BY <1>1, <2>2 DEF Apply, Contents, AddOps
<1>2. StoreInv /\ StoreInv' /\ [Next]_vars =>
        [pc = "obj_count" /\ op.kind = "add" /\ ret' = "OK" => Recovered'[op.id] = op.val]_vars
  BY <1>1
<1> QED BY <1>2, StoreInvHolds, PTL DEF Spec, AddIsDurable
=============================================================================
