---------------------------- MODULE MCNameIndex ----------------------------
(***************************************************************************)
(* Model-checking instance of NameIndex: the properties the design claims *)
(* of the name server's index, cache and registry (spec.md 4.1-4.3, 8).   *)
(***************************************************************************)
EXTENDS NameIndex, TLC

FindPcs == {"f_cache", "f_read", "f_trie", "f_add"}

\* The SS index search_find_file returns from a hit or after a fill.
Returned(c) == IF pc[c] = "f_read" THEN cache[hit[c]].ss ELSE res[c]

TypeOK ==
  /\ trie \in [Files -> Rec \cup {NoRec}]
  /\ cache \in [1..CacheSize -> [valid : BOOLEAN, name : Files \cup {NoRec},
                                 ss : 0..NSlots, t : 0..MaxTime]]
  /\ reg \in [Slots -> Servers \cup {NoSrv}]
  /\ cursor \in Slots
  /\ purging \subseteq Slots
  /\ store \in [Servers -> [Files -> Owners \cup {Absent}]]
  /\ srv \in [Servers -> {"down", "syncing", "up"}]
  /\ home \in [Servers -> 0..NSlots]
  /\ pc \in [Clients -> FindPcs \cup {"idle", "c_pick", "c_ss", "c_add",
                                      "c_owner", "d_inval", "d_ss", "hung"}]
  /\ op \in [Clients -> {"none", "locate", "create", "delete"}]
  /\ res \in [Clients -> 0..NSlots]

Perms == Permutations(Clients) \cup Permutations(Servers)

\* The pass run's view.  With one cache entry, cache_add's victim is entry 1
\* whatever the timestamps, and no property of that run reads a timestamp
\* or the ghosts everOn and deleted, which enable no step: states that
\* differ only in them behave alike and are identified.
TimeFreeView ==
  <<trie, [i \in 1..CacheSize |-> [cache[i] EXCEPT !.t = 0]],
    reg, cursor, purging, store, srv, home, unsynced, crashes,
    pc, op, file, slot, hit, res, picks>>

\* The pass run starts once every server has registered, with an empty
\* table, one per slot in some order, before any client connects.
StartedInit ==
  /\ \E r \in Bijection(Slots, Servers) :
       /\ reg = r
       /\ home = [s \in Servers |-> CHOOSE i \in Slots : r[i] = s]
  /\ srv = [s \in Servers |-> "up"]
  /\ trie = [f \in Files |-> NoRec]
  /\ cache = [i \in 1..CacheSize |->
                [valid |-> FALSE, name |-> NoRec, ss |-> 0, t |-> 0]]
  /\ now = 0
  /\ cursor = 1
  /\ purging = {}
  /\ store = [s \in Servers |-> [f \in Files |-> Absent]]
  /\ unsynced = [s \in Servers |-> {}]
  /\ crashes = 0
  /\ pc = [c \in Clients |-> "idle"]
  /\ op = [c \in Clients |-> "none"]
  /\ file = [c \in Clients |-> NoRec]
  /\ slot = [c \in Clients |-> 0]
  /\ hit = [c \in Clients |-> 0]
  /\ res = [c \in Clients |-> 0]
  /\ everOn = {}
  /\ deleted = {}
  /\ picks = <<>>

StartedSpec == StartedInit /\ [][Next]_vars

(***************************************************************************)
(* Round-robin placement (spec.md 8.4): while the set of active slots does *)
(* not change, any K successive get_ss_for_new_file calls, K at most the   *)
(* number of active slots, return K different slots, however the creates  *)
(* calling it interleave.                                                  *)
(***************************************************************************)
RoundRobinSpread == IsInjective(picks)

(***************************************************************************)
(* Owner-only destruction (spec.md 8.3): once DELETE of a file has been    *)
(* ACKed, and no CREATE has added it again, neither the trie nor the cache *)
(* finds it.                                                               *)
(***************************************************************************)
DeletedNotFound ==
  \A f \in deleted : trie[f] = NoRec /\ CacheIndex(f) = 0

(***************************************************************************)
(* search_find_file returns, from the cache or the trie, a slot the file  *)
(* was indexed on at some time, never another file's slot.                *)
(***************************************************************************)
FindReturnsHolder ==
  [][\A c \in Clients :
       (pc[c] \in {"f_read", "f_add"} /\ pc'[c] \notin FindPcs)
         => <<file[c], Returned(c)>> \in everOn]_vars

(***************************************************************************)
(* A file record references an active slot whose server holds the file,  *)
(* or a slot whose purge is still pending (spec.md 4.1, 8.10).            *)
(***************************************************************************)
IndexPointsToHolder ==
  \A f \in Files :
    trie[f] # NoRec =>
      LET i == trie[f].ss
      IN  i \in purging \/ (Active(i) /\ store[reg[i]][f] # Absent)

(***************************************************************************)
(* A CREATE answered with ACK made its client the file's owner: the name  *)
(* is a primary key (spec.md 4.1, 5).                                      *)
(***************************************************************************)
CreateAckMeansOwner ==
  [][\A c \in Clients :
       (pc[c] = "c_owner" /\ pc'[c] = "idle")
         => trie[file[c]] # NoRec /\ trie[file[c]].owner = c]_vars
=============================================================================
