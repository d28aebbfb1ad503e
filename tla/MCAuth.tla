------------------------------- MODULE MCAuth -------------------------------
(* Two clients, two slots for accounts, two names and two credentials. *)
EXTENDS Auth

CONSTANTS c1, c2, ann, bob, k1, k2, none

MCCtx == {c1, c2}
MCName == {ann, bob}
MCSecret == {k1, k2}
\* An admin, a user who may add users, and one who may do what that one may not.
MCPerms == {Root, [admin |-> FALSE, acts |-> {"user_add", "set_credentials"}],
            [admin |-> FALSE, acts |-> {"user_delete", "set_permissions"}]}
=============================================================================
