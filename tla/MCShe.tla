------------------------------- MODULE MCShe -------------------------------
(***************************************************************************)
(* Two servers that share the slots.  NVM holds either all that a boot and *)
(* an application need, the BOOT_MAC_KEY write-protected, or SECRET_KEY    *)
(* only.                                                                   *)
(***************************************************************************)
EXTENDS She, TLC

CONSTANTS s1, s2, app, k1

Rec(v, w) == [val |-> v, count |-> 0, wp |-> w]
Bare == [k \in Slot |-> IF k = "secret" THEN Rec(k1, FALSE) ELSE Empty]
Full == [Bare EXCEPT !["boot_key"] = Rec(k1, TRUE), !["boot_mac"] = Rec(k1, FALSE),
                     ![app] = Rec(k1, FALSE)]

mc_Provision == {Bare, Full}
Perms == Permutations({s1, s2})
=============================================================================
