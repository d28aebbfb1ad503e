---------------------------- MODULE MCCryptoClient ----------------------------
(* Hash objects and buffers of one client; its allow list knows one buffer.*)
EXTENDS CryptoClient, TLC

CONSTANTS o1, o2, b1, b2, b3

Perms == Permutations(Obj) \union Permutations(Listed)
=============================================================================
