------------------------------- MODULE MCCalls -------------------------------
(* Three key ids: two imports and a key of the application, or a made key.  *)
EXTENDS Calls, TLC

CONSTANTS k1, k2, k3

Perms == Permutations(Key)
=============================================================================
