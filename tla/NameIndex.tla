----------------------------- MODULE NameIndex -----------------------------
(***************************************************************************)
(* The name server's index layer (src/name_server/): the trie of file     *)
(* records (search.c), the LRU lookup cache in front of it (cache.c), the *)
(* storage-server slot registry (storage_manager.c), and the client       *)
(* handlers that combine them (client_handler.c: CREATE, DELETE, the      *)
(* lookups of READ/WRITE/LOCATE, the dead-SS report).  The storage        *)
(* servers are modelled as far as these handlers see them: a persistent   *)
(* set of files with the owner recorded in metadata, a registration that  *)
(* syncs that list into the trie, and crashes and restarts.               *)
(*                                                                         *)
(* trie_mutex, cache_mutex and ss_registry_mutex are each held only for   *)
(* the duration of one call, so every such call is one atomic step and a  *)
(* handler is a sequence of them.  An NS->SS round trip runs under the    *)
(* slot's socket_mutex together with the SS's single command thread, so   *)
(* it is one step too.  Slots are numbered 1..NSlots (index 0..9 in the   *)
(* code); the value 0 stands for the code's -1.                            *)
(***************************************************************************)
EXTENDS Naturals, Sequences, SequencesExt, Functions

CONSTANTS Clients,     \* NS client threads; a client's user name is itself
          Files,       \* file names
          Servers,     \* storage-server processes (each with its own disk)
          NSlots,      \* MAX_STORAGE_SERVERS
          CacheSize,   \* CACHE_SIZE
          MaxTime,     \* bound: last value of time(NULL)
          MaxCrashes,  \* bound: storage-server crashes in a behaviour
          NoSrv,       \* an inactive slot
          NoRec,       \* no file record at a trie node
          NoOwner,     \* the empty owner a fresh SS metadata entry has
          Absent       \* a file not on a server's disk

Slots == 1..NSlots
Owners == Clients \cup {NoOwner}
Rec == [ss : Slots, owner : Owners]

VARIABLES
  trie,      \* trie[f]: the FileRecord at f's node, or NoRec
  cache,     \* cache[i]: [valid, name, ss, t]
  now,       \* time(NULL)
  reg,       \* reg[i]: the server whose session socket slot i holds, or NoSrv
  cursor,    \* next_ss_index
  purging,   \* slots removed from the registry whose purge has not run
  store,     \* store[s][f]: owner in s's metadata, or Absent (on disk)
  srv,       \* srv[s]: "down", "syncing" (registering) or "up"
  home,      \* home[s]: the slot of s's live session, 0 when none
  unsynced,  \* unsynced[s]: files s has still to send at registration
  crashes,   \* crashes so far
  pc,        \* pc[c]: where c's handler is
  op,        \* op[c]: "create", "locate" or "delete"
  file,      \* file[c]: the file c's request names
  slot,      \* slot[c]: the slot c's handler holds (ss pointer / index)
  hit,       \* hit[c]: the cache index cache_lookup found
  res,       \* res[c]: the SS index search_find_file returned
  everOn,    \* ghost: pairs <<f, i>> f was ever indexed on
  deleted,   \* ghost: files whose DELETE was ACKed and not created since
  picks      \* ghost: slots get_ss_for_new_file returned since the
             \*        set of active slots last changed

vars == <<trie, cache, now, reg, cursor, purging, store, srv, home, unsynced,
          crashes, pc, op, file, slot, hit, res, everOn, deleted, picks>>
nsVars == <<trie, cache, reg, cursor, purging>>
ssVars == <<store, srv, home, unsynced, crashes>>
cVars  == <<pc, op, file, slot, hit, res>>
ghost  == <<everOn, deleted, picks>>

Active(i) == reg[i] # NoSrv

\* The session of slot i answers: its server is up and this is its session.
Live(i) == Active(i) /\ srv[reg[i]] = "up" /\ home[reg[i]] = i

-----------------------------------------------------------------------------
(* cache.c                                                                 *)

\* cache_lookup's scan: the first valid entry for f, 0 on a miss.
CacheIndex(f) ==
  LET hits == {i \in 1..CacheSize : cache[i].valid /\ cache[i].name = f}
  IN  IF hits = {} THEN 0 ELSE Min(hits)

\* cache_add's victim: the first empty entry; otherwise the first entry
\* whose last_used_time is the least (oldest_time starts at now and only
\* a strictly older entry replaces the candidate, index 0 by default).
LruIndex ==
  LET free == {i \in 1..CacheSize : ~cache[i].valid}
      least == {i \in 1..CacheSize :
                  \A j \in 1..CacheSize : cache[i].t <= cache[j].t}
  IN  IF free # {} THEN Min(free) ELSE Min(least)

CacheAdd(f, i) ==
  [cache EXCEPT ![LruIndex] = [valid |-> TRUE, name |-> f, ss |-> i, t |-> now]]

\* cache_invalidate for each file of fs: clears the first valid entry of
\* each name only.
CacheInvalidate(fs) ==
  [i \in 1..CacheSize |->
     IF cache[i].valid /\ cache[i].name \in fs /\ CacheIndex(cache[i].name) = i
     THEN [cache[i] EXCEPT !.valid = FALSE]
     ELSE cache[i]]

-----------------------------------------------------------------------------
(* storage_manager.c                                                       *)

ActiveSlots == {i \in Slots : Active(i)}

\* A scan for an active slot that starts at slot 0 instead of the cursor.
NextActiveFromStart == Min(ActiveSlots)

\* find_next_active_ss(next_ss_index): the first active slot at or after
\* the cursor, wrapping around.
NextActive ==
  LET dist(i) == (i - cursor + NSlots) % NSlots
  IN  CHOOSE i \in ActiveSlots : \A j \in ActiveSlots : dist(i) <= dist(j)

\* The cursor moved past slot i without wrapping at MAX_STORAGE_SERVERS.
AdvanceNoWrap(i) == i + 1

\* next_ss_index = (index + 1) % MAX_STORAGE_SERVERS.
Advance(i) == (i % NSlots) + 1

\* remove_storage_server on slot i's session socket: the slot is freed
\* under ss_registry_mutex; the purge of its files runs after the unlock.
RemoveServer(i) ==
  /\ reg' = [reg EXCEPT ![i] = NoSrv]
  /\ purging' = purging \cup {i}
  /\ picks' = <<>>

-----------------------------------------------------------------------------
(* search_find_file, called by a handler with op[c] set: cache_lookup,    *)
(* then on a miss the trie under trie_mutex, then cache_add after the     *)
(* unlock.  cache_lookup reads the hit entry's ss_index after releasing   *)
(* cache_mutex, a step of its own.  FindDone is where the handler goes on. *)

\* The handler returns to its command loop; its locals are dead.
Return(c) ==
  /\ pc' = [pc EXCEPT ![c] = "idle"]
  /\ op' = [op EXCEPT ![c] = "none"]
  /\ file' = [file EXCEPT ![c] = NoRec]
  /\ slot' = [slot EXCEPT ![c] = 0]
  /\ res' = [res EXCEPT ![c] = 0]

\* search_find_file returned r: CREATE goes on when r is -1; a lookup
\* handler answers (redirect or error) and returns.
FindDone(c, r) ==
  IF op[c] = "create" /\ r = 0
  THEN /\ pc' = [pc EXCEPT ![c] = "c_pick"]
       /\ res' = [res EXCEPT ![c] = 0]
       /\ UNCHANGED <<op, file, slot>>
  ELSE Return(c)

CacheLookup(c) ==
  /\ pc[c] = "f_cache"
  /\ LET i == CacheIndex(file[c]) IN
       IF i = 0
       THEN /\ pc' = [pc EXCEPT ![c] = "f_trie"]
            /\ UNCHANGED <<cache, hit>>
       ELSE /\ cache' = [cache EXCEPT ![i].t = now]
            /\ hit' = [hit EXCEPT ![c] = i]
            /\ pc' = [pc EXCEPT ![c] = "f_read"]
  /\ UNCHANGED <<now, reg, cursor, purging, trie, op, file, slot, res>>
  /\ UNCHANGED <<ssVars, ghost>>

CacheRead(c) ==
  /\ pc[c] = "f_read"
  /\ FindDone(c, cache[hit[c]].ss)
  /\ hit' = [hit EXCEPT ![c] = 0]
  /\ UNCHANGED <<nsVars, now, ssVars, ghost>>

TrieFind(c) ==
  /\ pc[c] = "f_trie"
  /\ IF trie[file[c]] = NoRec
     THEN FindDone(c, 0)
     ELSE /\ res' = [res EXCEPT ![c] = trie[file[c]].ss]
          /\ pc' = [pc EXCEPT ![c] = "f_add"]
          /\ UNCHANGED <<op, file, slot>>
  /\ UNCHANGED <<nsVars, now, hit, ssVars, ghost>>

FillCache(c) ==
  /\ pc[c] = "f_add"
  /\ cache' = CacheAdd(file[c], res[c])
  /\ FindDone(c, res[c])
  /\ UNCHANGED <<trie, reg, cursor, purging, now, hit>>
  /\ UNCHANGED <<ssVars, ghost>>

\* A lookup handler (READ, WRITE, STREAM, LOCATE, ...) of file f: its
\* search_find_file; the redirect it answers with is read from reg.
StartLocate(c, f) ==
  /\ pc[c] = "idle"
  /\ pc' = [pc EXCEPT ![c] = "f_cache"]
  /\ op' = [op EXCEPT ![c] = "locate"]
  /\ file' = [file EXCEPT ![c] = f]
  /\ UNCHANGED <<nsVars, now, slot, hit, res, ssVars, ghost>>

-----------------------------------------------------------------------------
(* handle_create_request: search_find_file must miss; get_ss_for_new_file; *)
(* MSG_CREATE round trip; search_add_file; MSG_INTERNAL_SET_OWNER sent     *)
(* without waiting for an answer; ACK to the client.                       *)

StartCreate(c, f) ==
  /\ pc[c] = "idle"
  /\ pc' = [pc EXCEPT ![c] = "f_cache"]
  /\ op' = [op EXCEPT ![c] = "create"]
  /\ file' = [file EXCEPT ![c] = f]
  /\ UNCHANGED <<nsVars, now, slot, hit, res, ssVars, ghost>>

GetSsForNewFile(c) ==
  /\ pc[c] = "c_pick"
  /\ IF ActiveSlots = {}
     THEN /\ Return(c)
          /\ UNCHANGED <<cursor, picks>>
     ELSE /\ cursor' = Advance(NextActive)
          /\ slot' = [slot EXCEPT ![c] = NextActive]
          /\ picks' = LET p == Append(picks, NextActive)
                      IN  IF Len(p) > Cardinality(ActiveSlots) THEN Tail(p) ELSE p
          /\ pc' = [pc EXCEPT ![c] = "c_ss"]
          /\ UNCHANGED <<op, file, res>>
  /\ UNCHANGED <<trie, cache, reg, purging, now, hit>>
  /\ UNCHANGED <<ssVars, everOn, deleted>>

\* Slots whose socket_mutex a handler holds for ever, blocked in recv for
\* an answer the SS never sends.
Hung == {slot[c] : c \in {d \in Clients : pc[d] = "hung"}}

\* A round trip on slot i can start: its socket_mutex is free.  Nothing
\* waits for the registration loop: the slot is active from the moment
\* register_storage_server takes it (how the two readers of the socket
\* then race is SsSession's subject).
CanSend(i) == i \notin Hung

\* The MSG_CREATE round trip.  The SS opens the file with fopen("w") and
\* add_metadata_entry adds an entry with an empty owner unless one exists.
\* A failed send or receive frees the slot (remove_storage_server on the
\* slot's current socket; a no-op when the slot is already inactive).
CreateOnServer(c) ==
  /\ pc[c] = "c_ss"
  /\ CanSend(slot[c])
  /\ LET i == slot[c] IN
       IF Live(i)
       THEN /\ store' = [store EXCEPT ![reg[i]][file[c]] =
                           IF @ = Absent THEN NoOwner ELSE @]
            /\ pc' = [pc EXCEPT ![c] = "c_add"]
            /\ UNCHANGED <<reg, purging, picks, op, file, slot, res>>
       ELSE /\ Return(c)
            /\ IF Active(i) THEN RemoveServer(i)
                            ELSE UNCHANGED <<reg, purging, picks>>
            /\ UNCHANGED store
  /\ UNCHANGED <<trie, cache, now, cursor, srv, home, unsynced, crashes>>
  /\ UNCHANGED <<hit, everOn, deleted>>

\* search_add_file: a record for a name that already has one is not added.
AddFile(c) ==
  /\ pc[c] = "c_add"
  /\ IF trie[file[c]] = NoRec
     THEN /\ trie' = [trie EXCEPT ![file[c]] = [ss |-> slot[c], owner |-> c]]
          /\ everOn' = everOn \cup {<<file[c], slot[c]>>}
          /\ deleted' = deleted \ {file[c]}
     ELSE UNCHANGED <<trie, everOn, deleted>>
  /\ pc' = [pc EXCEPT ![c] = "c_owner"]
  /\ UNCHANGED <<cache, now, reg, cursor, purging, ssVars>>
  /\ UNCHANGED <<op, file, slot, hit, res, picks>>

\* MSG_INTERNAL_SET_OWNER, unanswered: persist_set_owner sets the owner of
\* an existing metadata entry; a failed send is ignored.  Then the ACK.
SendOwner(c) ==
  /\ pc[c] = "c_owner"
  /\ CanSend(slot[c])
  /\ LET i == slot[c] IN
       store' = IF Live(i) /\ store[reg[i]][file[c]] # Absent
                THEN [store EXCEPT ![reg[i]][file[c]] = c]
                ELSE store
  /\ Return(c)
  /\ UNCHANGED <<nsVars, now, srv, home, unsynced, crashes, hit, ghost>>

-----------------------------------------------------------------------------
(* handle_delete_request: search_delete_file (owner only) unlinks the     *)
(* record; cache_invalidate; MSG_DELETE round trip to the record's slot   *)
(* if active; ACK whatever the SS did.  The SS answers MSG_DELETE only     *)
(* when remove() succeeds.                                                 *)

DeleteFile(c, f) ==
  /\ pc[c] = "idle"
  /\ trie[f] # NoRec
  /\ trie[f].owner = c
  /\ trie' = [trie EXCEPT ![f] = NoRec]
  /\ slot' = [slot EXCEPT ![c] = trie[f].ss]
  /\ file' = [file EXCEPT ![c] = f]
  /\ op' = [op EXCEPT ![c] = "delete"]
  /\ pc' = [pc EXCEPT ![c] = "d_inval"]
  /\ UNCHANGED <<cache, now, reg, cursor, purging, ssVars, hit, res, ghost>>

InvalidateDeleted(c) ==
  /\ pc[c] = "d_inval"
  /\ cache' = CacheInvalidate({file[c]})
  /\ pc' = [pc EXCEPT ![c] = "d_ss"]
  /\ UNCHANGED <<trie, now, reg, cursor, purging, ssVars>>
  /\ UNCHANGED <<op, file, slot, hit, res, ghost>>

DeleteOnServer(c) ==
  /\ pc[c] = "d_ss"
  /\ LET i == slot[c]
         f == file[c]
         ack == /\ Return(c)
                /\ deleted' = deleted \cup {f}
     IN  \/ /\ ~Active(i)
            /\ ack
            /\ UNCHANGED <<store, reg, purging, picks>>
         \/ /\ Live(i) /\ CanSend(i)
            /\ IF store[reg[i]][f] # Absent
               THEN /\ store' = [store EXCEPT ![reg[i]][f] = Absent]
                    /\ ack
               ELSE /\ pc' = [pc EXCEPT ![c] = "hung"]
                    /\ UNCHANGED <<store, deleted, op, file, slot, res>>
            /\ UNCHANGED <<reg, purging, picks>>
         \/ /\ Active(i) /\ ~Live(i) /\ CanSend(i)
            /\ RemoveServer(i)
            /\ ack
            /\ UNCHANGED store
  /\ UNCHANGED <<trie, cache, now, cursor, srv, home, unsynced, crashes>>
  /\ UNCHANGED <<hit, everOn>>

-----------------------------------------------------------------------------
(* A storage server's life: register_with_name_server (the NS takes the   *)
(* first inactive slot, ACKs, then one search_rebuild_add_file per file    *)
(* of the SS's metadata table, then MSG_REGISTER_COMPLETE), serving, and  *)
(* crashing.  The disk and metadata survive a crash.  The NS notices a     *)
(* crash only when the registration loop's recv fails, when a handler's   *)
(* round trip on the session fails, or when a client reports the SS dead. *)

Register(s) ==
  /\ srv[s] = "down"
  /\ ActiveSlots # Slots
  /\ LET i == Min(Slots \ ActiveSlots) IN
       /\ reg' = [reg EXCEPT ![i] = s]
       /\ home' = [home EXCEPT ![s] = i]
  /\ srv' = [srv EXCEPT ![s] = "syncing"]
  /\ unsynced' = [unsynced EXCEPT ![s] = {f \in Files : store[s][f] # Absent}]
  /\ picks' = <<>>
  /\ UNCHANGED <<trie, cache, now, cursor, purging, store, crashes, cVars>>
  /\ UNCHANGED <<everOn, deleted>>

\* search_rebuild_add_file(i, f with owner o): added when unknown,
\* refreshed when already on slot i, rejected when on another slot.
RebuildAddFile(i, f, o) ==
  IF trie[f] = NoRec \/ trie[f].ss = i
  THEN [trie EXCEPT ![f] = [ss |-> i, owner |-> o]]
  ELSE trie

SyncFile(s, f) ==
  /\ srv[s] = "syncing"
  /\ f \in unsynced[s]
  /\ trie' = RebuildAddFile(home[s], f, store[s][f])
  /\ everOn' = everOn \cup {<<f, trie'[f].ss>>}
  /\ unsynced' = [unsynced EXCEPT ![s] = @ \ {f}]
  /\ UNCHANGED <<cache, now, reg, cursor, purging, store, srv, home, crashes>>
  /\ UNCHANGED <<cVars, deleted, picks>>

SyncComplete(s) ==
  /\ srv[s] = "syncing"
  /\ unsynced[s] = {}
  /\ srv' = [srv EXCEPT ![s] = "up"]
  /\ UNCHANGED <<nsVars, now, store, home, unsynced, crashes, cVars, ghost>>

\* The SS process dies.  While registering, the NS's registration loop
\* sees its recv fail and calls remove_storage_server.
Crash(s) ==
  /\ srv[s] # "down"
  /\ crashes < MaxCrashes
  /\ srv' = [srv EXCEPT ![s] = "down"]
  /\ home' = [home EXCEPT ![s] = 0]
  /\ unsynced' = [unsynced EXCEPT ![s] = {}]
  /\ crashes' = crashes + 1
  /\ IF srv[s] = "syncing" THEN RemoveServer(home[s])
                          ELSE UNCHANGED <<reg, purging, picks>>
  /\ UNCHANGED <<trie, cache, now, cursor, store, cVars, everOn, deleted>>

\* handle_ss_dead_report from a client that could not reach s:
\* get_ss_sock_by_address (first active slot of s), remove_storage_server.
DeadReport(s) ==
  /\ srv[s] = "down"
  /\ \E i \in Slots : reg[i] = s
  /\ RemoveServer(Min({i \in Slots : reg[i] = s}))
  /\ UNCHANGED <<trie, cache, now, cursor, ssVars, cVars, everOn, deleted>>

\* search_purge_by_ss(i) under trie_mutex: every record on slot i is
\* unlinked and cache_invalidate'd.
Purge(i) ==
  /\ i \in purging
  /\ LET fs == {f \in Files : trie[f] # NoRec /\ trie[f].ss = i} IN
       /\ trie' = [f \in Files |-> IF f \in fs THEN NoRec ELSE trie[f]]
       /\ cache' = CacheInvalidate(fs)
  /\ purging' = purging \ {i}
  /\ UNCHANGED <<now, reg, cursor, ssVars, cVars, ghost>>

Tick ==
  /\ now < MaxTime
  /\ now' = now + 1
  /\ UNCHANGED <<nsVars, ssVars, cVars, ghost>>

-----------------------------------------------------------------------------
Init ==
  /\ trie = [f \in Files |-> NoRec]
  /\ cache = [i \in 1..CacheSize |->
                [valid |-> FALSE, name |-> NoRec, ss |-> 0, t |-> 0]]
  /\ now = 0
  /\ reg = [i \in Slots |-> NoSrv]
  /\ cursor = 1
  /\ purging = {}
  /\ store = [s \in Servers |-> [f \in Files |-> Absent]]
  /\ srv = [s \in Servers |-> "down"]
  /\ home = [s \in Servers |-> 0]
  /\ unsynced = [s \in Servers |-> {}]
  /\ crashes = 0
  /\ pc = [c \in Clients |-> "idle"]
  /\ op = [c \in Clients |-> "none"]
  /\ file = [c \in Clients |-> NoRec]
  /\ slot = [c \in Clients |-> 0]
  /\ hit = [c \in Clients |-> 0]
  /\ res = [c \in Clients |-> 0]
  /\ everOn = {}
  /\ deleted = {}
  /\ picks = <<>>

Next ==
  \/ Tick
  \/ \E i \in Slots : Purge(i)
  \/ \E s \in Servers :
       Register(s) \/ SyncComplete(s) \/ Crash(s) \/ DeadReport(s)
       \/ \E f \in Files : SyncFile(s, f)
  \/ \E c \in Clients :
       \/ \E f \in Files : StartLocate(c, f) \/ StartCreate(c, f)
                           \/ DeleteFile(c, f)
       \/ CacheLookup(c) \/ CacheRead(c) \/ TrieFind(c) \/ FillCache(c)
       \/ GetSsForNewFile(c) \/ CreateOnServer(c) \/ AddFile(c)
       \/ SendOwner(c) \/ InvalidateDeleted(c) \/ DeleteOnServer(c)

Spec == Init /\ [][Next]_vars
====
