------------------------------ MODULE Folders ------------------------------
(***************************************************************************)
(* The NS folder subsystem (src/name_server/search.c): a flat registry of  *)
(* folder paths with owners, and the folder field of every file record.   *)
(* Every operation runs under trie_mutex, so each is one atomic step.      *)
(* Paths are sequences of characters; "/" is only a notational separator. *)
(* The forwarding of changed folders to the storage servers is the         *)
(* session's business (SsSession).                                         *)
(***************************************************************************)
EXTENDS Naturals, Sequences, SequencesExt, FiniteSets

CONSTANTS Users,       \* user names
          Files,       \* file names
          FileOwner,   \* FileOwner[f]: owner_username of f's record
          Chars,       \* the characters paths are made of, "/" among them
          MaxName,     \* longest path a client sends
          MaxFolders,  \* MAX_FOLDERS
          NoMove       \* no folder move in the last step

\* The paths a client can send; the empty path is the root.
Names == UNION {[1..n -> Chars] : n \in 1..MaxName}
Root  == <<>>

VARIABLES registry,   \* folder_registry[0..folder_count): [name, owner]
          folder,     \* folder[f]: the folder field of f's record
          moved       \* ghost: the [src, dst] of the move just done, or NoMove

vars == <<registry, folder, moved>>

\* search_find_folder: registry entries with path n.
Named(n) == {e \in registry : e.name = n}

\* starts_with: a plain character prefix, not a path-segment prefix.
StartsWith(s, prefix) == IsPrefix(prefix, s)

\* search_move_folder's new folder for a file whose folder starts with src:
\* drop src and one "/" after it, and put dst in front.
Rest(fd, src) ==
  LET r == SubSeq(fd, Len(src) + 1, Len(fd))
  IN  IF r # <<>> /\ Head(r) = "/" THEN Tail(r) ELSE r

NewFolder(fd, src, dst) ==
  IF Len(src) = 0 THEN dst
  ELSE IF Rest(fd, src) # <<>> THEN dst \o <<"/">> \o Rest(fd, src)
  ELSE dst

\* CREATEFOLDER: search_add_folder refuses a duplicate or a full registry.
AddFolder(u, n) ==
  /\ Named(n) = {}
  /\ Cardinality(registry) < MaxFolders
  /\ registry' = registry \cup {[name |-> n, owner |-> u]}
  /\ moved' = NoMove
  /\ UNCHANGED folder

\* MOVE: search_set_file_folder, owner only; the folder need not exist.
SetFileFolder(u, f, n) ==
  /\ FileOwner[f] = u
  /\ folder' = [folder EXCEPT ![f] = n]
  /\ moved' = NoMove
  /\ UNCHANGED registry

\* MOVEFOLDER: search_move_folder.  The owner of src renames its entry to
\* dst (which must not exist) and rewrites every file folder that starts
\* with src.  Entries of sub-folders keep their names.
MoveFolder(u, src, dst) ==
  /\ \E e \in Named(src) : e.owner = u
  /\ Named(dst) = {}
  /\ registry' = {IF e.name = src THEN [e EXCEPT !.name = dst] ELSE e : e \in registry}
  /\ folder' = [f \in Files |->
                  IF StartsWith(folder[f], src)
                    THEN NewFolder(folder[f], src, dst) ELSE folder[f]]
  /\ moved' = [src |-> src, dst |-> dst]

Init ==
  /\ registry = {}
  /\ folder = [f \in Files |-> Root]
  /\ moved = NoMove

Next ==
  \E u \in Users :
    \/ \E n \in Names : AddFolder(u, n)
    \/ \E f \in Files, n \in Names \cup {Root} : SetFileFolder(u, f, n)
    \/ \E src \in Names, dst \in Names \cup {Root} : MoveFolder(u, src, dst)

Spec == Init /\ [][Next]_vars
=============================================================================
