--------------------------- MODULE MCUserRegistry ---------------------------
(***************************************************************************)
(* Model-checking instance of UserRegistry, and what spec.md says the      *)
(* registry holds.                                                         *)
(***************************************************************************)
EXTENDS UserRegistry

CONSTANTS alice, bob, carol, c1, c2, c3

(***************************************************************************)
(* spec.md 2 and 4.4: the user registry is the set of currently connected *)
(* client user names, and LIST returns it.  Every logged-in connection's   *)
(* name is listed: user_manager_register's duplicate check and full-list   *)
(* refusal, and user_manager_deregister on each disconnect, must keep it.  *)
(***************************************************************************)
ConnectedAreListed ==
  \A c \in Conns : pc[c] = "in" => user[c] \in Listed
=============================================================================
