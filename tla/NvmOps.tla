------------------------------- MODULE NvmOps -------------------------------
(***************************************************************************)
(* The operations of an NVM object store (whNvmCb, wolfhsm/wh_nvm.h) and   *)
(* what each does to the stored objects.  Shared by the abstract store and *)
(* by the backends that implement it.                                      *)
(***************************************************************************)
CONSTANTS Id,       \* object ids (whNvmId)
          Val,      \* object contents: metadata and data together
          None      \* "no object of this id"

Contents == [Id -> Val \union {None}]
NoObjects == [i \in Id |-> None]

NoOp == [kind |-> "none"]
AddOps == [kind: {"add"}, id: Id, val: Val]
DestroyOps == [kind: {"destroy"}, ids: SUBSET Id]
Ops == AddOps \union DestroyOps

\* What an operation does to the contents: the newest version of an id
\* replaces the older ones, a destroyed id is gone.
Apply(o, c) ==
  IF o.kind = "add" THEN [c EXCEPT ![o.id] = o.val]
  ELSE [i \in Id |-> IF i \in o.ids THEN None ELSE c[i]]

\* What a call returned; "NONE" while one is in progress and after a reset.
Returns == {"NONE", "OK", "NOSPACE", "ERROR"}

ASSUME NoneAssumption == None \notin Val
=============================================================================
