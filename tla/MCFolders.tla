---------------------------- MODULE MCFolders ----------------------------
(***************************************************************************)
(* Model-checking instance of Folders, and the rename that spec.md 4.5     *)
(* describes, written from the spec as the reference.                      *)
(***************************************************************************)
EXTENDS Folders

CONSTANTS alice, bob, f1, f2

MCFileOwner == (f1 :> alice) @@ (f2 :> bob)

\* Moves may lengthen paths; exploration stops at MaxPath characters.
MaxPath == 4
PathBound == \A f \in Files : Len(folder[f]) <= MaxPath

\* spec.md 4.5: a file's folder is rewritten iff src is a segment-aligned
\* prefix of it (equal, or src followed by "/"), by replacing that prefix.
SpecRename(fd, src, dst) ==
  IF fd = src THEN dst
  ELSE IF IsPrefix(src \o <<"/">>, fd) THEN dst \o SubSeq(fd, Len(src) + 1, Len(fd))
  ELSE fd

(***************************************************************************)
(* A folder move leaves every file's folder as spec.md 4.5 says: moved     *)
(* with it when it is the folder or inside it, untouched otherwise         *)
(* (search_move_folder's starts_with test and prefix rewrite).             *)
(***************************************************************************)
MoveFolderAsSpecified ==
  [][moved' # NoMove =>
       \A f \in Files : folder'[f] = SpecRename(folder[f], moved'.src, moved'.dst)]_vars
=============================================================================
