---------------------------- MODULE MCSsSession ----------------------------
(***************************************************************************)
(* Model-checking instance of SsSession: the session contract it is shown *)
(* to implement, and what the design says of the NS-SS exchange.          *)
(***************************************************************************)
EXTENDS SsSession, TLC

CONSTANTS alice, bob      \* user names
CONSTANTS a1, a2, b1      \* sessions: two of alice's, one of bob's

MCUserOf == (a1 :> alice) @@ (a2 :> alice) @@ (b1 :> bob)


-----------------------------------------------------------------------------
(***************************************************************************)
(* The session contract (spec.md 4.3, 9): the requests on the socket, in   *)
(* order, are the headers the NS wrote and the SS has not read; the         *)
(* answers are the headers the SS wrote and the NS has not read.  Holding  *)
(* socket_mutex from send_header to recv_header is what makes every        *)
(* handler read the answer to its own request, whatever the interleaving   *)
(* of handlers, SS command cases and SS death.                             *)
(***************************************************************************)
ReqOf(fr) == [cmd |-> fr.cmd, file |-> fr.file, tgt |-> fr.tgt, perm |-> fr.perm]

ReqView ==
  LET hdrs == SelectSeq(toSS, LAMBDA fr : fr.kind = "hdr" /\ fr.tag # NoSess)
  IN  [i \in 1..Len(hdrs) |-> <<hdrs[i].tag, ReqOf(hdrs[i])>>]

RepView ==
  LET ans == SelectSeq(toNS, LAMBDA fr : fr.tag # NoSess)
  IN  [i \in 1..Len(ans) |-> <<ans[i].tag, ans[i].cmd>>]

\* The requests a header can carry, computed once.
SessRequests == {ReqOf(fr) : fr \in Frame}

Contract == INSTANCE AtomicSession
              WITH Handlers <- Sessions,
                   Requests <- SessRequests,
                   Answers  <- {"ack", "meta_resp"},
                   reqs <- ReqView, reps <- RepView

ImplementsContract == Contract!Spec

\* The session between two registrations: the SS may die, and is not
\* started again.
ServingSpec == Init /\ [][Serving]_vars

(***************************************************************************)
(* The ACL the NS checks and the ACL the SS persists (and hands back to    *)
(* the NS when it registers again) agree on every file both have, once no  *)
(* handler is working on the file (spec.md 4.4: add/rem access are         *)
(* authorised in the trie, then forwarded to the SS for persistence, the   *)
(* client's answer mirroring the SS's).                                    *)
(***************************************************************************)
Quiet(f) == \A s \in Sessions : pc[s] = "idle" \/ fil[s] # f

AclInSync ==
  \A f \in Files :
    (up /\ rec[f] # NoRec /\ meta[f] # Absent /\ Quiet(f))
      => rec[f].acl = meta[f].acl

(***************************************************************************)
(* Every transaction ends (spec.md 4.3: a transaction is a send and a      *)
(* receive under the slot's lock): a handler waiting in recv_header        *)
(* eventually gets an answer or sees the socket fail, so socket_mutex is   *)
(* released.                                                               *)
(***************************************************************************)
TransactionsEnd ==
  \A s \in Sessions : pc[s] = "recv" ~> pc[s] # "recv"
=============================================================================
