----------------------------- MODULE MCNvmFlash -----------------------------
(***************************************************************************)
(* NvmFlash on a small flash: two ids, a content without data (a counter   *)
(* lives in its metadata) and one with data, three entries to a partition. *)
(***************************************************************************)
EXTENDS NvmFlash, TLC

CONSTANTS a, b, v0, v1

MCId == {a, b}
MCVal == {v0, v1}
MCUnitsOf == v0 :> 0 @@ v1 :> 2
Symmetry == Permutations(MCId)

\* A partition that is neither the one in use nor being written, and that a
\* reset would not choose, is only looked at for whether its header is complete,
\* and of which epoch, before it is erased.  States that differ in the rest of
\* it have the same behaviours and the same values of every property checked
\* under this view.  (When headers may be unreadable either can be chosen.)
Live(p) ==
  \/ "boot" \in Faults
  \/ Used({}) # {} /\ p = Choose(Used({}))
  \/ pc \in InitPc \ {"init_erase"} /\ p = active
  \/ Running /\ p = active
  \/ pc \in DstPc \ {"dst_erase"}
  \/ pc \in ObjPc /\ op.kind = "destroy"
Remains(p) ==
  IF Live(p) THEN <<hdr[p], obj[p], dat[p]>>
  ELSE IF HdrStatus(p) = "USED" THEN <<hdr[p].epoch>> ELSE <<>>
LiveState == <<Remains(0), Remains(1), pc, active, epoch, dir, dirBad, cp, op, ret>>
=============================================================================
