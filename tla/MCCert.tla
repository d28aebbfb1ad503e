------------------------------- MODULE MCCert -------------------------------
(* Two roots, a CA that one of them has issued, and a leaf of that CA.     *)
EXTENDS Cert, TLC

CONSTANTS r1, r2, i1, leaf

MCIssuer == [c \in Cert |-> IF c = leaf THEN i1 ELSE IF c = i1 THEN r1 ELSE c]
MCBelow == [a \in Cert |-> CASE a = r1 -> {r1, i1, leaf}
                             [] a = i1 -> {i1, leaf}
                             [] OTHER -> {a}]
Perms == Permutations(Server) \union Permutations(Id)
=============================================================================
