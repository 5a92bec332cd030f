--------------------------- MODULE MCWriteEngine ---------------------------
(***************************************************************************)
(* Model-checking instance of WriteEngine and the properties it is        *)
(* checked against.                                                        *)
(***************************************************************************)
EXTENDS WriteEngine, TLC

CONSTANTS a, b,         \* tokens of the file's initial words
          t1            \* a checkpoint tag

\* "a.": one complete sentence, so WRITE offers sentences 1..2.
MCInitContent == <<Word(a, 1)>>

\* "a. b.": two complete sentences, for two writers on different sentences.
MCTwoSentences == <<Word(a, 1), Word(b, 1)>>

Lock == [sent : Nat, fd : Fds]
Content == Seq([tok : Clients \cup {a, b, Bare}, nt : 0..2])

TypeOK ==
  /\ live \in Content
  /\ locks \in Seq(Lock)
  /\ DOMAIN swap \subseteq Nat \X Fds /\ \A k \in DOMAIN swap : swap[k] \in Content
  /\ conn \in [Clients -> Fds \cup {0}]
  /\ pc \in [Clients -> {"idle", "locking", "commit_read", "commit_trunc",
                         "commit_fill", "undo_trunc", "undo_fill", "undo_log",
                         "checkpoint", "revert", "revert_trunc", "revert_fill"}]
  /\ undoLog \in Seq([ts : 0..MaxTime, used : BOOLEAN, pre : Content])
  /\ DOMAIN backups \subseteq 0..MaxTime
  /\ now \in 0..MaxTime
  /\ sessions \in 0..MaxSessions
  /\ done \subseteq Clients
  /\ DOMAIN ckpt \subseteq Tags /\ \A t \in DOMAIN ckpt : ckpt[t] \in Content
  /\ tag \in [Clients -> Tags]
  /\ kept \in [Clients -> SUBSET Clients]

Perms == Permutations(Clients)

\* The pass run's view.  The ghosts sess, swapSess, done and kept enable no
\* step and no property of that run reads them.  With MaxLog = 1 there is at
\* most one undo entry and one backup, so a timestamp only links that entry
\* to its backup and never picks between two: time is left out as well.
NoTs(log) == [i \in DOMAIN log |-> [log[i] EXCEPT !.ts = 0]]

GhostAndTimeFreeView ==
  <<live, locks, swap, conn, pc, pend, buf, [c \in Clients |-> NoTs(snap[c])],
    NoTs(undoLog),
    {backups[t] : t \in DOMAIN backups}, sessions, ckpt, tag>>

(***************************************************************************)
(* Sentence lock mutual exclusion (spec.md 3 and 8.6): no two connections *)
(* hold the lock on the same sentence.  WRITE runs is_sentence_locked and  *)
(* add_sentence_lock as two separate critical sections of lock_mutex.      *)
(***************************************************************************)
LockExclusion ==
  \A i, j \in 1..Len(locks) :
    locks[i].sent = locks[j].sent => locks[i].fd = locks[j].fd

(***************************************************************************)
(* A completed commit is not undone by another writer (spec.md 4.9, 5 and *)
(* 8.6: concurrent commits to other sentences both survive): every client *)
(* word a completed ETIRW wrote into the live file is still there, unless *)
(* it was committed before an UNDO or REVERT passed its lock check, which *)
(* may then remove it, or a write of the file is half done.  The ETIRW     *)
(* handler reads, merges and rewrites the live file with no lock held;    *)
(* UNDO and REVERT test the lock list once and then write with none held. *)
(***************************************************************************)
CommittedWordsSurvive ==
  (\A c \in Clients : pc[c] \notin {"commit_fill", "undo_fill", "revert_fill"})
    => done \subseteq Tokens(live)

(***************************************************************************)
(* The undo history only grows (spec.md 4.10: "monotonic undo history"):  *)
(* no step drops an entry of the undo log or clears a used bit.           *)
(* perform_undo rewrites the whole log from the copy it read at its start. *)
(***************************************************************************)
UndoLogMonotone ==
  [][\A i \in 1..Len(undoLog) :
       /\ i <= Len(undoLog')
       /\ undoLog'[i].ts = undoLog[i].ts
       /\ undoLog'[i].pre = undoLog[i].pre
       /\ undoLog[i].used => undoLog'[i].used]_undoLog

(***************************************************************************)
(* A connection edits only what it wrote itself (spec.md 4.9: a private   *)
(* swap per writer; an abandoned swap is orphaned): the swap an insert or *)
(* ETIRW of a connection uses was written during that connection.  Swap   *)
(* files are named by (file, sentence, descriptor) and descriptors are    *)
(* reused after close.                                                    *)
(***************************************************************************)
NoInheritedSwap ==
  \A c \in Clients :
    (conn[c] # 0 /\ InWriteMode(conn[c]) /\ SwapKey(c) \in DOMAIN swap)
      => swapSess[SwapKey(c)] = sess[c]
=============================================================================
