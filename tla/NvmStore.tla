------------------------------ MODULE NvmStore ------------------------------
(***************************************************************************)
(* What the NVM object store promises its callers, without saying how:     *)
(* a map from ids to contents that survives a reset, updated by one        *)
(* operation at a time, each of which takes effect on the medium at one    *)
(* instant.  NvmFlash (two partitions, appended entries) implements it,    *)
(* and so does NvmFlashLog (an image, rewritten as a whole).               *)
(*                                                                         *)
(* The promise is the contract of whNvmCb in wolfhsm/wh_nvm.h: an          *)
(* interrupted operation leaves the store as before or as after, and       *)
(* success is returned only for what a reset can no longer undo.           *)
(***************************************************************************)
EXTENDS NvmOps

VARIABLES up,       \* the store is initialised and serves calls
          op,       \* the operation in progress
          ret,      \* what the last operation returned
          mem,      \* [Id -> Val or None], what callers see
          disk      \* [Id -> Val or None], what a reset would recover

storeVars == <<up, op, ret, mem, disk>>

StoreTypeOK ==
  /\ up \in BOOLEAN
  /\ op \in Ops \union {NoOp}
  /\ ret \in Returns
  /\ mem \in Contents
  /\ disk \in Contents

StoreInit ==
  /\ up = FALSE
  /\ op = NoOp
  /\ ret = "NONE"
  /\ mem = NoObjects
  /\ disk = NoObjects

\* A caller invokes the store.
Call(o) ==
  /\ up
  /\ op = NoOp
  /\ op' = o
  /\ ret' = "NONE"
  /\ UNCHANGED <<up, mem, disk>>

\* The commit point: the medium goes from one version to the next at once.  It
\* lies before the return, or coincides with it.
Persist ==
  /\ op # NoOp
  /\ disk' # disk
  /\ disk' = Apply(op, mem)
  /\ UNCHANGED <<up, op, ret, mem>>

\* The store switches over to what it persisted.
Expose ==
  /\ op # NoOp
  /\ mem' # mem
  /\ mem' = Apply(op, mem)
  /\ mem' = disk
  /\ UNCHANGED <<up, op, ret, disk>>

\* Success is returned only for what the medium holds.
Succeed ==
  /\ op # NoOp
  /\ op' = NoOp
  /\ ret' = "OK"
  /\ UNCHANGED up
  /\ mem' = Apply(op, mem)
  /\ disk' = mem'

\* A call that has nothing to do, or is refused, changes nothing.
Refuse ==
  /\ up
  /\ op = NoOp
  /\ ret' \in Returns
  /\ UNCHANGED <<up, op, mem, disk>>

\* An operation that fails leaves what callers see alone; it may have passed
\* its commit point, and its effect then shows after the next reset.
Fail ==
  /\ op # NoOp
  /\ op' = NoOp
  /\ ret' = "ERROR"
  /\ UNCHANGED <<up, mem>>
  /\ disk' \in {disk, Apply(op, mem)}

\* A reset at any point finds the operation done or not begun.
Reset ==
  /\ up' = FALSE
  /\ op' = NoOp
  /\ ret' = "NONE"
  /\ mem' = NoObjects
  /\ disk' \in {disk} \union (IF op = NoOp THEN {} ELSE {Apply(op, mem)})

\* Initialisation finds what the medium holds, no more and no less.
Recover ==
  /\ ~up
  /\ up' = TRUE
  /\ UNCHANGED <<op, ret, disk>>
  /\ mem' = disk

StoreNext ==
  \/ \E o \in Ops : Call(o)
  \/ Persist
  \/ Expose
  \/ Succeed
  \/ Refuse
  \/ Fail
  \/ Reset
  \/ Recover

StoreSpec == StoreInit /\ [][StoreNext]_storeVars
=============================================================================
