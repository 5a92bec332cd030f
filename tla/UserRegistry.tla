---------------------------- MODULE UserRegistry ----------------------------
(***************************************************************************)
(* The NS active-user registry (src/name_server/user_manager.c) and the    *)
(* client connection threads that feed it (handle_client_connection in     *)
(* client_handler.c).  Register, deregister and the listing each run under *)
(* user_mutex, so each is one atomic step; a connection's login (ACK, then *)
(* register) and its logout (the receive loop ends, on a disconnect or     *)
(* after EXEC, then deregister) are steps of its own thread.               *)
(***************************************************************************)
EXTENDS Naturals, Sequences, SequencesExt

CONSTANTS Conns,      \* connection threads (a finished one may serve a new connection)
          Names,      \* user names clients register with
          MaxActive   \* MAX_ACTIVE_USERS

VARIABLES active,     \* active_users[0 .. user_count)
          pc,         \* pc[c]: "idle" (no connection) or "in" (logged in)
          user        \* user[c]: client_username of thread c

vars == <<active, pc, user>>

\* user_manager_register: refused when the list is full, a no-op when the
\* name is already listed, else appended.
Register(u) ==
  active' = IF Len(active) >= MaxActive \/ u \in Range(active)
              THEN active ELSE Append(active, u)

\* user_manager_deregister: the first entry with the name is overwritten by
\* the last entry, and the list shrinks by one.
Deregister(u) ==
  active' = IF u \in Range(active)
              THEN LET i == SelectInSeq(active, LAMBDA x : x = u)
                   IN  SubSeq([active EXCEPT ![i] = active[Len(active)]],
                              1, Len(active) - 1)
              ELSE active

\* user_manager_get_list: the names listed, one per line (50 names of at
\* most 63 characters always fit its 4096-byte buffer).
Listed == Range(active)

\* handle_client_connection, steps 1-3: the first message registers the
\* name (a connection that starts otherwise is closed with no state
\* change), the ACK is sent, and the name is registered.
Login(c, u) ==
  /\ pc[c] = "idle"
  /\ user' = [user EXCEPT ![c] = u]
  /\ pc' = [pc EXCEPT ![c] = "in"]
  /\ Register(u)

\* Steps 4-6: recv_header fails (the client went away) or EXEC handed the
\* socket to the executor, which closes it; then the name is deregistered.
Logout(c) ==
  /\ pc[c] = "in"
  /\ pc' = [pc EXCEPT ![c] = "idle"]
  /\ Deregister(user[c])
  /\ UNCHANGED user

\* init_user_manager.
Init ==
  /\ active = <<>>
  /\ pc = [c \in Conns |-> "idle"]
  /\ user = [c \in Conns |-> CHOOSE u \in Names : TRUE]

Next ==
  \E c \in Conns : Logout(c) \/ \E u \in Names : Login(c, u)

Spec == Init /\ [][Next]_vars
=============================================================================
