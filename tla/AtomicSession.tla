--------------------------- MODULE AtomicSession ---------------------------
(***************************************************************************)
(* The session multiplexing contract of spec.md 4.3 and 9, as an abstract  *)
(* specification: the NS talks to a storage server over one session; the   *)
(* NS handlers put requests on it, the storage server serves them in the   *)
(* order they were sent and may answer each one, and every answer is taken *)
(* by the handler whose request it answers.  A handler that finds the      *)
(* session broken learns that it failed.                                   *)
(***************************************************************************)
EXTENDS Naturals, Sequences

CONSTANTS Handlers,   \* NS threads that use the session
          Requests,   \* what a handler may ask
          Answers,    \* what the storage server may answer
          NoAns,      \* nothing taken (yet)
          Failed      \* what a handler takes from a broken session

VARIABLES up,     \* the session is open
          reqs,   \* requests sent and not yet served: <<handler, request>>
          reps,   \* answers given and not yet taken: <<handler, answer>>
          got     \* got[h]: the last answer handler h took

vars == <<up, reqs, reps, got>>

Init ==
  /\ up = TRUE
  /\ reqs = <<>>
  /\ reps = <<>>
  /\ got = [h \in Handlers |-> NoAns]

Send(h, r) ==
  /\ up
  /\ reqs' = Append(reqs, <<h, r>>)
  /\ UNCHANGED <<up, reps, got>>

\* The server serves the oldest request, answering it or not.
Serve ==
  /\ reqs # <<>>
  /\ reqs' = Tail(reqs)
  /\ \/ reps' = reps
     \/ \E a \in Answers : reps' = Append(reps, <<Head(reqs)[1], a>>)
  /\ UNCHANGED <<up, got>>

\* Only the handler the oldest answer is for can take it.
Take(h) ==
  /\ reps # <<>>
  /\ Head(reps)[1] = h
  /\ got' = [got EXCEPT ![h] = Head(reps)[2]]
  /\ reps' = Tail(reps)
  /\ UNCHANGED <<up, reqs>>

\* The server goes away: requests it has not read are lost; answers it
\* already wrote can still be read.
Close ==
  /\ up
  /\ up' = FALSE
  /\ reqs' = <<>>
  /\ UNCHANGED <<reps, got>>

\* The server comes back on a new session once the old one is drained.
Reopen ==
  /\ ~up
  /\ reps = <<>>
  /\ up' = TRUE
  /\ UNCHANGED <<reqs, reps, got>>

Fail(h) ==
  /\ ~up
  /\ got' = [got EXCEPT ![h] = Failed]
  /\ UNCHANGED <<up, reqs, reps>>

Forget(h) ==
  /\ got' = [got EXCEPT ![h] = NoAns]
  /\ UNCHANGED <<up, reqs, reps>>

\* The length test is implied by Send; it only spares TLC the enumeration
\* of every handler and request on steps that send nothing.
Next ==
  \/ Len(reqs') = Len(reqs) + 1 /\ \E h \in Handlers, r \in Requests : Send(h, r)
  \/ Serve
  \/ \E h \in Handlers : Take(h) \/ Fail(h) \/ Forget(h)
  \/ Close
  \/ Reopen

Spec == Init /\ [][Next]_vars
=============================================================================
