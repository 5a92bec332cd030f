---------------------------- MODULE WriteEngine ----------------------------
(***************************************************************************)
(* The storage server's sentence-granular write engine for one file       *)
(* (src/storage_server/main.c, client_handler_thread and its helpers):    *)
(* the process-wide sentence lock list, per-connection swap files, the    *)
(* ETIRW commit merge, the undo log with its backups, and connections     *)
(* whose socket descriptors the kernel reuses.                             *)
(*                                                                         *)
(* Each client c is served by its own thread.  A thread's handler is cut   *)
(* into steps where it touches shared state (the lock list, the live      *)
(* file, the undo log) with no lock held in between, since the code takes *)
(* lock_mutex only inside the lock helpers and nothing around file I/O.   *)
(* Writing a file with fopen("w") truncates it at once and fills it at    *)
(* fclose, so a write of the live file is two steps: readers in between   *)
(* see an empty file.                                                      *)
(***************************************************************************)
EXTENDS Naturals, Sequences, SequencesExt, Functions, SentenceText

CONSTANTS Tags,         \* checkpoint tags clients use
          Clients,      \* client threads; a client's inserted word is its name
          Fds,          \* socket descriptors the server may hand out (1..N)
          InitContent,  \* the live file's words at start
          MaxSessions,  \* bound: connections accepted over a behaviour
          MaxLen,       \* bound: words in any file the model writes
          MaxTime,      \* bound: last value of time(NULL)
          MaxLog,       \* bound: commits with a swap (undo log entries)
          MaxLocks      \* bound: entries of the sentence lock list

ASSUME Fds \subseteq Nat /\ Fds # {}

VARIABLES
  live,      \* words of data/ss_<port>/files/<file>
  locks,     \* sentence_locks list, newest first: <<[sent, fd], ...>>
  swap,      \* swap files: <<sent, fd>> -> words of <file>_<sent>_<fd>.swap
  conn,      \* conn[c]: descriptor of c's connection, 0 when not connected
  pc,        \* pc[c]: where c's handler is
  pend,      \* pend[c]: the sentence a WRITE is about to lock
  buf,       \* buf[c]: content a handler read and will write
  snap,      \* snap[c]: the undo log as an undo read it
  undoLog,   \* undo/<file>.undo: <<[ts, used, pre], ...>>; pre is ghost
  backups,   \* versions/<file>_<ts>.bak: ts -> words
  now,       \* time(NULL)
  sessions,  \* connections accepted so far
  sess,      \* sess[c]: number of c's current connection (ghost)
  swapSess,  \* swapSess[k]: the connection that last wrote swap k (ghost)
  done,      \* client words a completed commit wrote to the file (ghost)
  ckpt,      \* checkpoints/<file>_<tag>.checkpoint: tag -> words
  tag,       \* tag[c]: the tag of c's CHECKPOINT or REVERT
  kept       \* kept[c]: done when c's UNDO or REVERT passed its lock check (ghost)

ckVars == <<ckpt, tag, kept>>

vars == <<live, locks, swap, conn, pc, pend, buf, snap, undoLog, backups,
          now, sessions, sess, swapSess, done, ckVars>>

NewWords(c) == <<Word(c, 0)>>

OpenFds == {conn[c] : c \in Clients} \ {0}

\* Descriptors: accept() returns the lowest one not in use.
LowestFree == CHOOSE fd \in Fds \ OpenFds :
                \A g \in Fds \ OpenFds : fd <= g

Tokens(ws) == {ws[i].tok : i \in 1..Len(ws)}

\* get_client_write_info: the newest lock held by a descriptor, if any.
InWriteMode(fd) == \E i \in 1..Len(locks) : locks[i].fd = fd
WriteLock(fd) ==
  locks[SelectInSeq(locks, LAMBDA l : l.fd = fd)]

\* remove_sentence_lock: unlinks the first entry matching (sent, fd).
RemoveSentenceLock(sent, fd) ==
  RemoveFirstMatch(locks, LAMBDA l : l.sent = sent /\ l.fd = fd)

\* remove_client_locks: unlinks every lock the descriptor holds.
RemoveClientLocks(fd) == SelectSeq(locks, LAMBDA l : l.fd # fd)

\* is_sentence_locked: held by a different descriptor.
IsSentenceLocked(sent, fd) ==
  \E i \in 1..Len(locks) : locks[i].sent = sent /\ locks[i].fd # fd

Idle(c) == conn[c] # 0 /\ pc[c] = "idle"

\* A command line reaches the regular command parser: in write mode every
\* line but ETIRW goes to the insert parser (main.c 858).
Cmd(c) == Idle(c) /\ ~InWriteMode(conn[c])

-----------------------------------------------------------------------------
(* Connection set-up and tear-down.                                        *)

\* main(): accept() a client; its thread reads the USER line.
Connect(c) ==
  /\ conn[c] = 0
  /\ sessions < MaxSessions
  /\ OpenFds # Fds
  /\ conn' = [conn EXCEPT ![c] = LowestFree]
  /\ sessions' = sessions + 1
  /\ sess' = [sess EXCEPT ![c] = sessions + 1]
  /\ UNCHANGED <<live, locks, swap, pc, pend, buf, snap, undoLog, backups,
                 now, swapSess, done, ckVars>>

\* Thread exit (EXIT or connection closed): remove_client_locks(fd), then
\* close(fd).  The descriptor's swap files stay on disk.
Disconnect(c) ==
  /\ Idle(c)
  /\ locks' = RemoveClientLocks(conn[c])
  /\ conn' = [conn EXCEPT ![c] = 0]
  /\ UNCHANGED <<live, swap, pc, pend, buf, snap, undoLog, backups, now,
                 sessions, sess, swapSess, done, ckVars>>

-----------------------------------------------------------------------------
(* WRITE <file> <sent>: range check against the live file, then           *)
(* is_sentence_locked and add_sentence_lock, each under lock_mutex.        *)

WriteCheck(c, s) ==
  /\ Cmd(c)
  /\ s \in 1..AvailableSentences(live, FALSE)
  /\ ~IsSentenceLocked(s, conn[c])
  /\ Len(locks) < MaxLocks
  /\ pc' = [pc EXCEPT ![c] = "locking"]
  /\ pend' = [pend EXCEPT ![c] = s]
  /\ UNCHANGED <<live, locks, swap, conn, buf, snap, undoLog, backups, now,
                 sessions, sess, swapSess, done, ckVars>>

AddSentenceLock(c) ==
  /\ pc[c] = "locking"
  /\ locks' = <<[sent |-> pend[c], fd |-> conn[c]]>> \o locks
  /\ pc' = [pc EXCEPT ![c] = "idle"]
  /\ pend' = [pend EXCEPT ![c] = 0]
  /\ UNCHANGED <<live, swap, conn, buf, snap, undoLog, backups, now,
                 sessions, sess, swapSess, done, ckVars>>

-----------------------------------------------------------------------------
(* In write mode, "<idx> <content>": read the swap if it exists, else the *)
(* live file; InsertWords; write the swap.  A rejected index changes       *)
(* nothing.                                                                *)

SwapKey(c) == <<WriteLock(conn[c]).sent, conn[c]>>

\* An insert that writes the swap whatever InsertWords answers.
InsertIgnoringRejection(c, idx) ==
  /\ Idle(c)
  /\ InWriteMode(conn[c])
  /\ LET k   == SwapKey(c)
         src == IF k \in DOMAIN swap THEN swap[k] ELSE live
         res == InsertWords(src, k[1], idx, NewWords(c))
     IN  /\ res = Rejected \/ Len(res) <= MaxLen
         /\ swap' = (k :> res) @@ swap
         /\ swapSess' = (k :> sess[c]) @@ swapSess
  /\ UNCHANGED <<live, locks, conn, pc, pend, buf, snap, undoLog, backups,
                 now, sessions, sess, done, ckVars>>

Insert(c, idx) ==
  /\ Idle(c)
  /\ InWriteMode(conn[c])
  /\ LET k   == SwapKey(c)
         src == IF k \in DOMAIN swap THEN swap[k] ELSE live
         res == InsertWords(src, k[1], idx, NewWords(c))
     IN  /\ res # Rejected
         /\ Len(res) <= MaxLen
         /\ swap' = (k :> res) @@ swap
         /\ swapSess' = (k :> sess[c]) @@ swapSess
  /\ UNCHANGED <<live, locks, conn, pc, pend, buf, snap, undoLog, backups,
                 now, sessions, sess, done, ckVars>>

-----------------------------------------------------------------------------
(* ETIRW.  With a swap: create_file_backup (copy the live file to         *)
(* <file>_<now>.bak and append "now|name|user" to the undo log), read the *)
(* live file, write the merge, remove the swap, update_metadata_entry,     *)
(* remove_sentence_lock.  Without a swap: only remove_sentence_lock.       *)

CommitNoSwap(c) ==
  /\ Idle(c)
  /\ InWriteMode(conn[c])
  /\ SwapKey(c) \notin DOMAIN swap
  /\ locks' = RemoveSentenceLock(SwapKey(c)[1], conn[c])
  /\ UNCHANGED <<live, swap, conn, pc, pend, buf, snap, undoLog, backups,
                 now, sessions, sess, swapSess, done, ckVars>>

CreateFileBackup(c) ==
  /\ Idle(c)
  /\ InWriteMode(conn[c])
  /\ SwapKey(c) \in DOMAIN swap
  /\ Len(undoLog) < MaxLog
  /\ backups' = (now :> live) @@ backups
  /\ undoLog' = Append(undoLog, [ts |-> now, used |-> FALSE, pre |-> live])
  /\ pc' = [pc EXCEPT ![c] = "commit_read"]
  /\ UNCHANGED <<live, locks, swap, conn, pend, buf, snap, now, sessions,
                 sess, swapSess, done, ckVars>>

CommitRead(c) ==
  /\ pc[c] = "commit_read"
  /\ buf' = [buf EXCEPT ![c] = live]
  /\ pc' = [pc EXCEPT ![c] = "commit_trunc"]
  /\ UNCHANGED <<live, locks, swap, conn, pend, snap, undoLog, backups, now,
                 sessions, sess, swapSess, done, ckVars>>

\* fopen(path, "w") of the live file by a commit, an undo or a revert.
FillAfter == [commit_trunc |-> "commit_fill", undo_trunc |-> "undo_fill",
              revert_trunc |-> "revert_fill"]

Truncate(c) ==
  /\ pc[c] \in DOMAIN FillAfter
  /\ live' = <<>>
  /\ pc' = [pc EXCEPT ![c] = FillAfter[pc[c]]]
  /\ UNCHANGED <<locks, swap, conn, pend, buf, snap, undoLog, backups, now,
                 sessions, sess, swapSess, done, ckVars>>

CommitFill(c) ==
  /\ pc[c] = "commit_fill"
  /\ LET k == SwapKey(c)
         merged == MergeSwap(buf[c], swap[k], k[1])
     IN  /\ live' = merged
         /\ swap' = Restrict(swap, DOMAIN swap \ {k})
         /\ swapSess' = Restrict(swapSess, DOMAIN swapSess \ {k})
         /\ locks' = RemoveSentenceLock(k[1], conn[c])
         /\ done' = done \cup (Tokens(merged) \cap Clients)
  /\ pc' = [pc EXCEPT ![c] = "idle"]
  /\ buf' = [buf EXCEPT ![c] = <<>>]
  /\ UNCHANGED <<conn, pend, snap, undoLog, backups, now, sessions,
                 sess, ckVars>>

-----------------------------------------------------------------------------
(* UNDO <file>: refused while any sentence lock on the file is held; then *)
(* perform_undo reads the log, picks the unused entry with the greatest    *)
(* timestamp, copies its backup into the live file, marks it used and     *)
(* rewrites the whole log from what it read.  No log or no unused entry:  *)
(* ERR_404 and nothing changes.                                            *)

\* The entry perform_undo restores: unused, newest first (entries with
\* equal timestamps name the same backup file).
UndoTarget(log) ==
  CHOOSE i \in 1..Len(log) :
    /\ ~log[i].used
    /\ \A j \in 1..Len(log) : ~log[j].used => log[j].ts <= log[i].ts

UndoRead(c) ==
  /\ Cmd(c)
  /\ locks = <<>>
  /\ \E i \in 1..Len(undoLog) : ~undoLog[i].used
  /\ snap' = [snap EXCEPT ![c] = undoLog]
  /\ buf' = [buf EXCEPT ![c] = backups[undoLog[UndoTarget(undoLog)].ts]]
  /\ pc' = [pc EXCEPT ![c] = "undo_trunc"]
  /\ kept' = [kept EXCEPT ![c] = done]
  /\ UNCHANGED <<live, locks, swap, conn, pend, undoLog, backups, now,
                 sessions, sess, swapSess, done, ckpt, tag>>

UndoFill(c) ==
  /\ pc[c] = "undo_fill"
  /\ live' = buf[c]
  /\ pc' = [pc EXCEPT ![c] = "undo_log"]
  /\ buf' = [buf EXCEPT ![c] = <<>>]
  /\ done' = done \ kept[c]
  /\ UNCHANGED <<locks, swap, conn, pend, snap, undoLog, backups, now,
                 sessions, sess, swapSess, ckVars>>

UndoRewriteLog(c) ==
  /\ pc[c] = "undo_log"
  /\ undoLog' = [snap[c] EXCEPT ![UndoTarget(snap[c])].used = TRUE]
  /\ pc' = [pc EXCEPT ![c] = "idle"]
  /\ snap' = [snap EXCEPT ![c] = <<>>]
  /\ UNCHANGED <<live, locks, swap, conn, pend, buf, backups, now,
                 sessions, sess, swapSess, done, ckVars>>

-----------------------------------------------------------------------------
(* CHECKPOINT <file> <tag> and REVERT <file> <tag>: each first refuses    *)
(* (ERR_409) while any sentence lock on the file is held, in one          *)
(* lock_mutex section, and then runs with no lock.  create_checkpoint     *)
(* copies the live file to the tag's checkpoint unless that exists (-2).  *)
(* revert_to_checkpoint reads the checkpoint (none: 0, nothing changes),  *)
(* runs create_file_backup and rewrites the live file with it.            *)
(* VIEWCHECKPOINT and LISTCHECKPOINTS only read.                           *)

CheckpointCheck(c, t) ==
  /\ Cmd(c)
  /\ locks = <<>>
  /\ pc' = [pc EXCEPT ![c] = "checkpoint"]
  /\ tag' = [tag EXCEPT ![c] = t]
  /\ UNCHANGED <<live, locks, swap, conn, pend, buf, snap, undoLog, backups,
                 now, sessions, sess, swapSess, done, ckpt, kept>>

CreateCheckpoint(c) ==
  /\ pc[c] = "checkpoint"
  /\ ckpt' = IF tag[c] \in DOMAIN ckpt THEN ckpt ELSE (tag[c] :> live) @@ ckpt
  /\ pc' = [pc EXCEPT ![c] = "idle"]
  /\ UNCHANGED <<live, locks, swap, conn, pend, buf, snap, undoLog, backups,
                 now, sessions, sess, swapSess, done, tag, kept>>

RevertCheck(c, t) ==
  /\ Cmd(c)
  /\ locks = <<>>
  /\ pc' = [pc EXCEPT ![c] = "revert"]
  /\ tag' = [tag EXCEPT ![c] = t]
  /\ kept' = [kept EXCEPT ![c] = done]
  /\ UNCHANGED <<live, locks, swap, conn, pend, buf, snap, undoLog, backups,
                 now, sessions, sess, swapSess, done, ckpt>>

\* No checkpoint with the tag: ERR_404.
RevertNotFound(c) ==
  /\ pc[c] = "revert"
  /\ tag[c] \notin DOMAIN ckpt
  /\ pc' = [pc EXCEPT ![c] = "idle"]
  /\ UNCHANGED <<live, locks, swap, conn, pend, buf, snap, undoLog, backups,
                 now, sessions, sess, swapSess, done, ckVars>>

RevertBackup(c) ==
  /\ pc[c] = "revert"
  /\ tag[c] \in DOMAIN ckpt
  /\ Len(undoLog) < MaxLog
  /\ buf' = [buf EXCEPT ![c] = ckpt[tag[c]]]
  /\ backups' = (now :> live) @@ backups
  /\ undoLog' = Append(undoLog, [ts |-> now, used |-> FALSE, pre |-> live])
  /\ pc' = [pc EXCEPT ![c] = "revert_trunc"]
  /\ UNCHANGED <<live, locks, swap, conn, pend, snap, now, sessions, sess,
                 swapSess, done, ckVars>>

RevertFill(c) ==
  /\ pc[c] = "revert_fill"
  /\ live' = buf[c]
  /\ done' = done \ kept[c]
  /\ buf' = [buf EXCEPT ![c] = <<>>]
  /\ pc' = [pc EXCEPT ![c] = "idle"]
  /\ UNCHANGED <<locks, swap, conn, pend, snap, undoLog, backups, now,
                 sessions, sess, swapSess, ckVars>>

\* The clock advances.
Tick ==
  /\ now < MaxTime
  /\ now' = now + 1
  /\ UNCHANGED <<live, locks, swap, conn, pc, pend, buf, snap, undoLog,
                 backups, sessions, sess, swapSess, done, ckVars>>

-----------------------------------------------------------------------------
Init ==
  /\ live = InitContent
  /\ locks = <<>>
  /\ swap = <<>>
  /\ conn = [c \in Clients |-> 0]
  /\ pc = [c \in Clients |-> "idle"]
  /\ pend = [c \in Clients |-> 0]
  /\ buf = [c \in Clients |-> <<>>]
  /\ snap = [c \in Clients |-> <<>>]
  /\ undoLog = <<>>
  /\ backups = <<>>
  /\ now = 0
  /\ sessions = 0
  /\ sess = [c \in Clients |-> 0]
  /\ swapSess = <<>>
  /\ done = {}
  /\ ckpt = <<>>
  /\ tag = [c \in Clients |-> CHOOSE t \in Tags : TRUE]
  /\ kept = [c \in Clients |-> {}]

Next ==
  \/ Tick
  \/ \E c \in Clients :
       \/ Connect(c) \/ Disconnect(c)
       \/ \E s \in 1..(MaxLen + 1) : WriteCheck(c, s)
       \/ AddSentenceLock(c)
       \/ \E idx \in 1..(MaxLen + 1) : Insert(c, idx)
       \/ CommitNoSwap(c) \/ CreateFileBackup(c) \/ CommitRead(c)
       \/ Truncate(c) \/ CommitFill(c)
       \/ UndoRead(c) \/ UndoFill(c) \/ UndoRewriteLog(c)
       \/ \E t \in Tags : CheckpointCheck(c, t) \/ RevertCheck(c, t)
       \/ CreateCheckpoint(c)
       \/ RevertNotFound(c) \/ RevertBackup(c) \/ RevertFill(c)

Spec == Init /\ [][Next]_vars
=============================================================================
