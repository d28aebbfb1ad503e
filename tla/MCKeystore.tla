---------------------------- MODULE MCKeystore ----------------------------
(***************************************************************************)
(* Keystore with two keys of one client, which compete for the slots of    *)
(* its cache, and two server contexts it may connect to.                   *)
(***************************************************************************)
EXTENDS Keystore, TLC

CONSTANTS s1, s2, c1

OneClient == [k \in KeyId |-> c1]
MCFlagSets == {{"usage"}, {"usage", "nonexportable", "nonmodifiable"}}
Symmetry == Permutations({s1, s2})
=============================================================================
