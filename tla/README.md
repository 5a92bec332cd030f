# Model-checking the collaborative document system

TLA+ models of the C implementation under `src/src/`, checked with TLC.
`PROJECT.json` lists every component (modelled or not), every run, the
mutants that show each passing property can fail, the map from each TLA+
definition to the source lines it models, the findings, and the hazards.

## The system

* **Name server (NS)**, `src/src/name_server/`:
  * a trie of files with owners and ACLs, plus a folder registry (`search.c`);
  * an LRU lookup cache (`cache.c`);
  * a registry of storage servers (`storage_manager.c`);
  * a list of active users (`user_manager.c`);
  * one thread per client that routes commands (`client_handler.c`);
  * EXEC (`executor.c`).

  The NS talks to each storage server over one socket, guarded by a per-server mutex.
* **Storage server (SS)**, `src/src/storage_server/`:
  * a thread that executes NS commands (`handle_ns_commands`);
  * one thread per client connection (`client_handler_thread`). Clients
    connect directly for READ, STREAM, WRITE, UNDO, checkpoints and access
    requests.
  * Writes are sentence-granular:
    * `WRITE f n` locks sentence n in a process-wide lock list;
    * each `<idx> <words>` line edits a swap file named `<f>_<n>_<fd>.swap`;
    * `ETIRW` backs up the file, appends to the undo log, merges the swap's
      sentence into the current file and releases the lock.
  * `UNDO` restores the newest unused backup.
  * File metadata (`persistence.c`) is an in-memory table saved to disk.
* **Client**, `src/src/client/`: a CLI that forwards commands.

## Modules

| Module | Models | Source |
|---|---|---|
| `SentenceText` | Pure text algorithms as operators: `Sentences` (sentence splitting), `AvailableSentences` (WRITE's range), `InsertWords` (the insert handler: peel one terminator character, splice, reattach it), `MergeSwap` (ETIRW's merge). `EditRef` is the reference edit that spec.md 4.9/8.6 describes, written independently of the code. | main.c 118-174, 660-824, 858-1121, 1385-1440 |
| `MCSentenceText` | Enumerates every file of up to `MaxWords` words and every accepted insert, then compares insert + commit with `EditRef`. | |
| `WriteEngine` | One file on one SS: the lock list, swap files, the ETIRW commit, backups and the undo log, UNDO, CHECKPOINT and REVERT, and connections with descriptor reuse. | main.c 269-281, 580-856, 858-888, 1366-1513, 1537-1570, 1633-1668, 1926-2354 |
| `MCWriteEngine` | Instantiates `WriteEngine`: concrete initial contents, symmetry, and the properties. | |
| `NameIndex` | The NS file index (trie records with owner and slot), the LRU lookup cache, the SS registry with round-robin placement, removal and purge; the CREATE, DELETE and lookup (`search_find_file`) handlers, the dead-SS report; and the SS side of registration (file-list sync), MSG_CREATE, MSG_DELETE and SET_OWNER. | cache.c, search.c 577-998, storage_manager.c 15-246, client_handler.c 44-210, 467-484; SS main.c 324-334 |
| `MCNameIndex` | Instantiates `NameIndex`: symmetry, type invariant and the index properties. | |
| `AtomicSession` | The abstract session contract of spec.md 4.3/9: handlers send requests, the server serves them in order and may answer, each answer is taken by the handler it is for; the session may close and reopen. | spec.md 4.3, 9 |
| `SsSession` | One SS and its session with the NS: the NS handlers CREATE (+ SET_OWNER), DELETE, UNDO, INFO, ADDACCESS, REMACCESS and MOVE with their trie checks and updates, `socket_mutex`, send, receive or failure and server removal; the SS command loop with its metadata table (`persistence.c`); SS crash, and re-registration as the steps of both sides' registration threads; the SS-side access requests. | client_handler.c 80-465, 891-940; search.c 338-369, 606-645, 683-800, 921-997; storage_manager.c 28-167, 225-246; SS main.c 297-488, 515-554, 1736-1924, 2479-2764; persistence.c 198-344 |
| `MCSsSession` | Instantiates `SsSession`, maps it onto `AtomicSession` and states the session properties. | |
| `Folders` | The NS folder registry and the folder field of each file record: CREATEFOLDER (`search_add_folder`), MOVE (`search_set_file_folder`) and MOVEFOLDER (`search_move_folder`'s rename and trie walk, with `starts_with`). Each runs under `trie_mutex`, so each is one action. | search.c 16-23, 298-423 |
| `UserRegistry` | The NS active-user list (`user_manager.c`: register with its full-list and duplicate checks, deregister by swapping with the last entry, the listing) and the login and logout of each client connection thread. | user_manager.c 9-84; client_handler.c 1106-1149 |
| `MCUserRegistry` | Instantiates `UserRegistry` and states what spec.md 2 and 4.4 say the registry holds. | |
| `MCFolders` | Instantiates `Folders` and states the rename of spec.md 4.5 (`SpecRename`, written from the spec) as the reference. | |

### How WriteEngine corresponds to the code

Each client thread is split into steps wherever it touches shared state. The
code takes `lock_mutex` only inside the lock helpers and takes no lock around
file I/O, so each of these steps is a separate atomic action:

* **`WriteCheck` / `AddSentenceLock`**: the range check and
  `is_sentence_locked` (1385-1471), then `add_sentence_lock` (1473). These
  are two critical sections.
* **`Insert`**: the whole insert handler. It reads the swap or the live file,
  applies `InsertWords`, and writes the swap. A rejected index changes
  nothing.
* **`CommitNoSwap`**: ETIRW without a swap, which only releases the lock.
* **`Cmd`**: the regular command parser is reached only outside write mode
  (main.c 858-1144). A connection that holds a lock sends every line but
  ETIRW to the insert parser, so WRITE, UNDO, CHECKPOINT and REVERT need
  `Cmd`.
* **ETIRW with a swap** is four actions:
  * `CreateFileBackup`: the backup file and the undo-log entry;
  * `CommitRead`: reads the live file;
  * `Truncate`: `fopen("w")` empties the file;
  * `CommitFill`: writes the merge, deletes the swap and removes the lock.
* **UNDO** is four actions:
  * `UndoRead`: the lock check and the read of the log and backup
    (1485-1513, 2081-2149);
  * `Truncate`;
  * `UndoFill`;
  * `UndoRewriteLog`: the log rewritten from the copy that was read
    (2180-2195).
* **CHECKPOINT** is two actions: `CheckpointCheck`, the one-time test that
  no sentence lock is held (1537-1570), and `CreateCheckpoint`
  (`create_checkpoint`: copy the live file unless the tag exists).
* **REVERT** is five actions: `RevertCheck` (the same test, 1633-1668),
  then `revert_to_checkpoint` as `RevertNotFound` or `RevertBackup` (read
  the checkpoint, `create_file_backup`), `Truncate` and `RevertFill`.
  VIEWCHECKPOINT and LISTCHECKPOINTS only read.
* **`Connect` / `Disconnect`**: `accept` gives the lowest free descriptor. At
  thread exit, `remove_client_locks` runs and the swaps stay on disk.
* **`Tick`**: `time(NULL)` advances. Backups are named by the second.

Data abstraction:
* A word is a token plus the number of '.', '!' and '?' characters that end it.
* A client inserts one word: its own name.
* Ghost variables record what the properties need:
  * `sess` and `swapSess`: connection numbers;
  * `undoLog[i].pre`: the content each backup should hold;
  * `done`: the client words that completed commits wrote;
  * `kept[c]`: `done` when c's UNDO or REVERT passed its lock check. Its
    fill may remove those words, and only those.

### How NameIndex corresponds to the code

Handlers are split at every mutex boundary, as in WriteEngine:
* **Lookup** (`search_find_file`): `CacheLookup` is cache_lookup's locked
  loop; `CacheRead` is its read of `cache[found_index].ss_index` after the
  unlock; `TrieFind` is the locked trie read; `FillCache` is the
  `cache_add` after the trie unlock. `StartLocate` and `StartCreate` start a
  lookup; `FindDone` is what the handler does with the result.
* **CREATE**: `GetSsForNewFile` (round robin under the registry mutex),
  `CreateOnServer` (the MSG_CREATE round trip under the slot's socket
  mutex; a dead server is removed), `AddFile` (`search_add_file`, which
  keeps an existing record), `SendOwner` (SET_OWNER, then ACK).
* **DELETE**: `DeleteFile` (owner check and unlink), `InvalidateDeleted`,
  `DeleteOnServer` (the three outcomes: inactive slot, a live server, a
  failed round trip). A server without the file never answers: the handler
  stays `hung` holding the slot's socket mutex (`Hung`).
* **Registry**: `Register` takes the lowest free slot; `SyncFile` is one
  MSG_REGISTER_FILE (`search_rebuild_add_file`); `SyncComplete`. A slot is
  usable from the moment `Register` fills it, so handlers can make round
  trips to a server that is still syncing (`CanSend`). How their frames mix
  with the sync loop's on the socket is SsSession's subject; `Crash`
  (a server dies; during sync its slot is removed); `DeadReport`
  (`handle_ss_dead_report`); `Purge` (`search_purge_by_ss`, run after the
  registry mutex is released, so it is a separate step pending in
  `purging`). `Tick` advances `time(NULL)` for the LRU.

Data abstraction: a server address is the server itself; a file's
owner is the creating client; file contents are not modelled, only
whether a server's store holds the file and with which owner. Ghost
variables: `everOn` (every file/slot pair ever indexed), `deleted` (files
whose DELETE was ACKed since their last create), `picks` (recent round-robin
choices, reset when the set of active slots changes).

### How SsSession corresponds to the code

* State. `rec` is the trie record of each file (owner, ACL, folder), `active`
  and `holder` are the slot's `is_active` and `socket_mutex`, and `pc`/`cmd`/
  `fil`/`tgt`/`perm` are each client thread's place and locals. `got` is a
  ghost: the answer its last `recv_header` returned. On the SS side, `up` is
  the process with its socket, `meta` is `file_table`, and `crashes` counts deaths.
  The socket is two FIFO queues of frames, `toSS` and `toNS`. A frame is a
  header or the payload that follows it, and carries the session it belongs
  to as a ghost tag.
* NS actions. `Start*` is a handler up to its request: the trie part
  (`search_check_permission`, `search_delete_file`, or the helpers
  `GrantPermission`, `RemovePermission` and `SetFileFolder`, which are
  `search_grant_permission`, `search_remove_permission` and
  `search_set_file_folder`), then the slot's `is_active` test. The trie is
  changed before the SS is contacted, as in the code. `SendRequest` locks and sends. `RecvReply` and `RecvFail`
  are the two outcomes of `recv_header`, including the server removal done
  by CREATE, DELETE, UNDO and INFO and skipped by the ACL and MOVE handlers.
  `SendOwner` is CREATE's fire-and-forget SET_OWNER.
* SS actions. `Serve` is one iteration of `handle_ns_commands`. Each case
  calls the `persistence.c` entry point it calls in the code. DELETE of a
  missing file, UNDO without a usable backup (a nondeterministic choice,
  since backups are WriteEngine's business) and SET_FOLDER send no answer.
  A frame the SS does not expect goes to the default branch. `Crash` loses
  the unread requests.
* Re-registration (`Reregistration`) is a step of each side at a time:
  * `Register`: the SS starts again (`load_metadata` reads back the table it
    saved on every change), connects and sends MSG_REGISTER; the NS's
    `register_storage_server` takes the slot and sets `is_active`. From here
    on, handlers use the new socket (`reg` is the NS registration thread,
    `ssPc` the SS main thread).
  * `RegAck1` and `RegAck2`: the two MSG_ACKs. A failed send closes the
    socket, after removing the server in the second case only.
  * `SsRegister`: the SS takes the first header as its ACK. Any other header
    makes it exit. On the ACK it sends a MSG_REGISTER_FILE and its payload
    per table entry (owner and ACL, never the folder), then
    MSG_REGISTER_COMPLETE (`FileList`), and enters its command loop. The
    second ACK is then the first header that loop reads.
  * `SyncRecv`: one pass of the NS sync loop, which reads without
    `socket_mutex`. MSG_REGISTER_FILE with the next frame as its payload
    goes to `search_rebuild_add_file`, and MSG_REGISTER_COMPLETE ends the
    thread. Anything else, or a failed recv, disconnects (`SyncDisconnect`):
    the server is removed and the socket closed, and the SS then ends.
  * Registration frames carry no session tag. The SS sends the whole file
    list as one step, and a frame is read whole; the byte stream under the
    frames is not modelled.
* Access requests (spec.md 4.12). `pending[f]` is the set of PENDING
  `(user, perm)` lines of `f.requests`. `RequestAccess`, `ApproveRequest`
  and `DenyRequest` are the REQUESTACCESS, APPROVEREQUEST and DENYREQUEST
  cases of the SS's `client_handler_thread`: the handler's checks (the file
  exists, `check_file_owner` as `SsOwner`, the requester's current
  permission), then `request_file_access`, `approve_access_request` (which
  calls `persist_set_acl`) or `deny_access_request`, each one step. An
  approval changes only the SS ACL; the NS is not told. `pending` is on
  disk, so a crash keeps it, and DELETE leaves it. VIEWREQUESTS only reads.
* Restriction. All files are on the one slot, and a restarted SS registers
  only after the NS has removed the dead one and its old registration
  thread has ended. The code has 10 slots and
  would take another one otherwise.
* Refinement. `MCSsSession` maps the implementation onto `AtomicSession`:
  * `reqs` is the sequence of NS request headers on `toSS`;
  * `reps` is the sequence of answers on `toNS` (registration frames left
    out), each paired with its tag.
  * `ImplementsContract` (the abstract `Spec` as a PROPERTY) then says that
    every answer a handler reads is the answer to its own request. It holds
    between registrations (`ServingSpec`, run `session`). It fails once
    re-registration is included (`session_reregister`).

### How Folders corresponds to the code

* A path is a sequence of characters over `Chars` (`"a"`, `"b"`, `"/"`).
  `"/"` matters only to the code's own string tests, so paths are not split
  into segments.
* `registry` is the set of `folder_registry` entries. Names are unique
  (both writers check), so the array order is immaterial.
* `folder[f]` is the `folder` field of file f's record. Files and owners are
  fixed (`FileOwner`): creation and deletion are NameIndex's.
* `MoveFolder` is the whole of `search_move_folder`: the two refusals, the
  rename, and the rewrite of every file whose folder `starts_with` src
  (`Rest` drops one `"/"`, `NewFolder` joins with dst). The ghost `moved`
  records the move for the action property.
* The forwarding of the new folders to the SS (`handle_move_folder_request`)
  is not part of this module. Its SET_FOLDER is the one `session_hang` shows
  unanswered.

### How UserRegistry corresponds to the code

* `active` is `active_users[0 .. user_count)` as a sequence, so the
  removal's swap with the last entry is kept. `Listed` is the set
  `user_manager_get_list` writes out; its 4096-byte buffer always holds 50
  names of at most 63 characters, so it never truncates.
* `pc[c]` and `user[c]` belong to the connection thread c. `Login` is the
  first message, the ACK and `user_manager_register`. `Logout` is the end of
  the receive loop, when the client goes away or EXEC takes the socket (the
  executor closes it), followed by `user_manager_deregister`. A thread that
  is done may serve a new connection.
* Each registry call holds `user_mutex` throughout, so each is one step.

## Runs

| Run | Result | What it shows |
|---|---|---|
| `text_solo_edit` (`MCSentenceText.cfg`) | violation | `SoloEditLandsAsSpecified`: one writer's insert then commit does not always give the edit spec.md 4.9 describes. Inserting `x.` at position 1 of the file `a` writes the swap `x. a`. The merge re-splits the swap and keeps only its sentence 1 (main.c 794), so the commit writes `x.` and `a` is lost. |
| `write_engine` (`MCWriteEngine.cfg`) | pass, ~670k states, 1.5 min | Two clients and two reusable descriptors lock, insert, commit (with the truncation window), undo, checkpoint, revert and reconnect. `TypeOK` holds: in particular a rejected insert never reaches the swap. |
| `write_lock_toctou` | violation | `LockExclusion`: two connections lock the same sentence (check at 1469, add at 1473). |
| `write_lost_commit` | violation | `CommittedWordsSurvive`, checked only over states with exclusive locks (CONSTRAINT `LockExclusion`). A commit to sentence 2 reads during another commit's truncation window and rewrites the file as its own words, erasing a completed commit. UNDO (1485) and REVERT (1638) fail it too: each tests the lock list once, and a commit made after the test is overwritten. |
| `name_index` (`MCNameIndex.cfg`) | pass, ~1.5M states, 1 min | From the state where both servers have registered (`StartedSpec`), two clients create, delete and locate one file while a server crashes once, is reported dead or found dead, is purged, and registers and syncs again, with handlers using its slot during the sync. `RoundRobinSpread`: successive placements differ while the active set is stable. |
| `index_stale_cache` | violation | `DeletedNotFound`: a lookup that read the trie before a DELETE fills the cache after it (search.c 672); the deleted file is found again. |
| `index_create_toctou` | violation | `CreateAckMeansOwner`: two CREATEs of one name both pass the check at client_handler.c 85; both get ACK, one is not the owner. |
| `session` (`MCSsSession.cfg`) | pass, 347k states, 30 s | Between two registrations (`ServingSpec`: `Next` without the re-registration steps): alice and bob, one session each, run every handler on one file against an SS that may crash once, while bob sends access requests for read and write that alice (or bob) approves or denies. `ImplementsContract` holds: `socket_mutex` keeps each handler's answer its own, across a crash and a payload left unread. |
| `session_reregister` (`SS_reregister.cfg`) | violation | `ImplementsContract` under `Spec`, with re-registration: after the SS crashes and registers again, bob's CREATE is sent after the first ACK and takes the SS's `MSG_REGISTER_COMPLETE` as its answer. The slot is active from storage_manager.c 62, and the sync loop (128-152) reads the socket without `socket_mutex`. |
| `session_acl_order` (`SS_acl_order.cfg`) | violation | `AclInSync`: two ADDACCESS/REMACCESS handlers of one owner change the trie ACL in one order and reach the SS in the other (client_handler.c 372 versus 395). Once both are done, the NS grants READ and the SS has no entry. |
| `user_listed` (`UR_listed.cfg`) | violation | `ConnectedAreListed`: two connections log in as alice and one disconnects. `user_manager_deregister` removes the one shared entry (user_manager.c 47), so LIST omits a connected user; spec.md 2 and 4.4 say the registry is the set of connected names. |
| `session_hang` (`SS_hang.cfg`) | violation | `TransactionsEnd` under `FairSpec`: a MOVE's SET_FOLDER is never answered (main.c 483), so its handler waits in `recv_header` forever, holding `socket_mutex`. |

Six further violation configurations are kept beside their modules but
not in the run list, which is capped at twelve runs. The hazards in
`PROJECT.json` describe what each shows:
* `MCSentenceText_split.cfg` (`SoloEditLandsAsSpecified` for a doubled
  terminator: the insert handler peels one character of `a..` (main.c
  1029), so `x` inserted at the end gives the swap `a. x.`, and the commit
  writes `a.`);
* `FO_prefix.cfg` (`MoveFolderAsSpecified`: moving folder `a` rewrites a
  file in folder `aa` to `/a` (with an empty dst, a payload of just NUL) and
  `ab` to `b/b` (with dst `b`); the test is `starts_with`, a character
  prefix (search.c 299), where spec.md 4.5 replaces only a segment-aligned
  prefix);
* `WE_undo_log.cfg` (`UndoLogMonotone`: perform_undo rewrites the log from a
  stale copy, main.c 2185);
* `WE_swap_reuse.cfg` (`NoInheritedSwap`: a reused descriptor inherits an
  abandoned swap, main.c 872);
* `NI_cache_slot.cfg` (`FindReturnsHolder`: cache_lookup reads its entry
  after unlocking, cache.c 34);
* `NI_purge_create.cfg` (`IndexPointsToHolder`: a CREATE ACKed by a server
  that then dies and is purged adds its record afterwards, on a freed slot,
  client_handler.c 134).

Mutants:
* Forgetting the wrap of the round-robin cursor breaks `TypeOK`; restarting
  the search at slot 1 breaks `RoundRobinSpread`.
* Writing a rejected insert to the swap breaks `TypeOK`.
* Sending a request without taking `socket_mutex` (`SendRequestUnlocked`)
  breaks `ImplementsContract`: a second handler's request overtakes the
  first one's answer, and one handler reads the other's reply.

Backups are named by the second (main.c 2052): two commits in one second share
`<f>_<ts>.bak`, and the older undo entry then restores the newer content.
The model reaches this; it is listed as a hazard without a run of its own.

### Bounds

The bounds are the smallest that reach every interesting case:

* **SentenceText.** Words carry the number of terminator characters that
  end them (`nt`), up to `MaxTerm`, and `BareTerms` gives the lengths of the
  terminator-only words a file may hold. The two configurations leave
  terminator-only words out, so that each trace shows its own case. Two
  words of a file and one or two inserted words are enough: the run has
  terminators in the inserted words (`NewTerms = {0, 1}`), and the split
  configuration has doubled terminators in the file (`MaxTerm = 2`). Each
  divergence shows on a one-word file.
* **WriteEngine pass run.**
  * 2 clients, 2 descriptors and `MaxSessions = 2` allow a race and a
    descriptor reuse.
  * `MaxLen = 3` allows two commits on "a.".
  * `MaxLog = 1` and `MaxTime = 1` let a commit, an undo and a later commit
    land in two different seconds.
  * `MaxLocks = 2` bounds the lock list.
  * One checkpoint tag: a checkpoint, a refused second one, and a revert.
  * `VIEW GhostAndTimeFreeView` leaves out the ghosts, which no guard and
    no property of this run reads. It also leaves out timestamps: with
    `MaxLog = 1` there is one undo entry and one backup, so a timestamp
    never chooses between two backups.
* **WriteEngine violation runs.** `MaxLog = 2` and `MaxTime = 0` are enough
  for each trace, which is 6 to 14 steps long.
* **NameIndex.** Two clients and one file give every race of two handlers
  on one name; two servers and two slots give slot reuse and round robin;
  `MaxCrashes = 1` gives one removal and re-registration. The pass run
  starts after both servers have registered, in either slot order
  (`StartedInit`, closed under the server symmetry), as they do when the
  servers are started before the clients. Registration and sync still
  happen after the crash. The violation runs start from `Init`, with both
  servers down. `CacheSize = 1`
  makes every fill an eviction. With one entry the LRU victim does not
  depend on timestamps, so the pass run lets time advance (`MaxTime = 1`)
  and identifies states that differ only in time (`VIEW TimeFreeView`); it
  reaches exactly as many states as with `MaxTime = 0`. The violation runs
  keep `MaxTime = 0`: every entry has the same timestamp, the case
  `cache_add` meets within one second. The violation runs use two files where a trace needs
  them (cache slot reuse).
* **SsSession.**
  * The pass run has one session per user, one file, one folder and
    `MaxCrashes = 1`. This gives every handler against every SS case and
    a crash during every transaction. The re-registration run has the same
    bounds under `Spec`; its trace is 11 steps.
  * Access requests: one requester (bob) and both permissions, so that a
    request can be for more than is held and a deny can cover two lines.
    The ACL and hang runs send none (`Requesters = {}`).
  * The ACL run needs two sessions of the owner (`a1`, `a2`) and no crash.
  * The hang run needs one session per user and no crash.
  * More sessions only repeat the same interleavings on the one lock.
* **Folders.** Two users, and two files with different owners, so the
  owner checks of MOVE and MOVEFOLDER both refuse and admit. Client paths
  have at most `MaxName = 2` characters, which gives the paths `a`, `aa`,
  `ab` and `a/`. `MaxFolders = 2` allows a source and a destination, and the
  registry fills up. A move can lengthen a path, so the CONSTRAINT
  `PathBound` stops exploring past 4 characters. The divergence needs 3
  steps.
* **UserRegistry.** Three connection threads, three names (alice, bob,
  carol) and `MaxActive = 2`. This allows two logins under one name, and a
  third name refused by a full list (user_manager.c 19). The violation
  needs 3 steps.
* Symmetry over `Clients` and over `Servers` is sound for NameIndex: slots
  are not permuted (round robin orders them), and no property names a client or server.
* Symmetry over `Clients` is sound: clients are interchangeable except for
  their word, and no property names a particular client.

### Fairness and deadlock

* `SsSession` states `Fairness` for the one liveness run:
  * Weak fairness of every NS handler step (`SendRequest`, `RecvReply`,
    `RecvFail`, `SendOwner`), of the SS command loop (`Serve`), and of the
    registration steps of both sides (`RegAck1`, `RegAck2`, `SsRegister`,
    `SyncRecv`).
  * The OS schedules these threads, and each keeps running while it can:
    a blocked `recv_header` returns as soon as a frame arrives or the
    socket closes.
  * There is no fairness on the clients' commands, a crash or a restart
    (`Register`).
    No client is obliged to send anything, and the SS is not obliged to die.
  * Under this fairness, `TransactionsEnd` fails only because the SS never
    answers some requests.
* The WriteEngine runs set `CHECK_DEADLOCK FALSE` because the system really
  does stop: once the session, log and length bounds are used up and every
  client is idle and disconnected, nothing can happen.
* `MCNameIndex.cfg` and the SsSession configurations set it too. A server
  that never answers a DELETE of a missing file (NameIndex) or a SET_FOLDER
  (SsSession) hangs its handler, and every other request to that server
  waits on `socket_mutex`. In `ServingSpec` a dead SS is not started again,
  so once its handlers have failed nothing can happen. Under `Spec`, a crash
  between CREATE's ACK and its SET_OWNER leaves, after re-registration, a
  file owned by nobody, on which no command can act.

## Not modelled (yet), and the plan

In order of planned work:

1. **NameIndex, continued**: a liveness run for the hung DELETE; a
   crash-enabled `DeletedNotFound` run (a file deleted while its server was
   down comes back at re-registration); a property that every file on a
   synced server is indexed (purge racing a re-registration).
2. **Session, continued**:
   * `MSG_INTERNAL_READ` (the metadata refresh of listings);
   * the unlocked sharing of `file_table` between the SS threads
     (persistence.c 233);
   * several slots, so that a restarted SS can register before the dead one
     is removed;
   * the registration exchange at the byte level (a handler reading half of
     a MSG_REGISTER_FILE payload).
3. **Folders, continued**: VIEWFOLDER's listing (`search_get_files_in_folder`),
   and sub-folder registry entries, which a move does not rename.
4. **Access**:
   * a run for the owner-in-ACL path found through access requests (the
     creator's request before SET_OWNER is served, approved by the
     creator; hazard main.c:1758);
   * the unlocked read-modify-write of the requests file, as two steps;
   * refinement: the NS and SS ACLs implement one abstract ACL.
5. **Users**: a pass run for the registry's own invariant (every listed
   name has a live connection), which needs a free run slot.

Out of reach or not worth a model:
* EXEC (process I/O);
* READ and STREAM (read-only streaming);
* the wire protocol and logging;
* the client CLI.
