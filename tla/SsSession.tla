------------------------------ MODULE SsSession ------------------------------
(***************************************************************************)
(* One storage server's session with the name server.                      *)
(*                                                                         *)
(* NS side (src/name_server/client_handler.c, search.c): client threads     *)
(* that check and update the file record in the trie, then take the slot's *)
(* socket_mutex and run one request/response transaction on the session    *)
(* socket: CREATE (+ SET_OWNER), DELETE, UNDO, INFO, ADDACCESS, REMACCESS *)
(* and MOVE.  SS side (src/storage_server/main.c handle_ns_commands,       *)
(* persistence.c): one thread that reads a header, runs the command's case *)
(* on the metadata table, and answers or not.                              *)
(*                                                                         *)
(* The socket is two FIFO queues of frames: a header, and the payload that *)
(* follows it for the commands that have one.  A frame carries a ghost tag, *)
(* the session whose request it is or answers.  All files are on the one   *)
(* slot, so a purge of the slot removes every record.                      *)
(***************************************************************************)
EXTENDS Naturals, Sequences, SequencesExt

CONSTANTS Sessions,   \* NS client connections
          Users,      \* user names
          UserOf,     \* UserOf[s]: the user session s registered as
          Files,      \* file names
          Dir,        \* a folder name
          NoFolder,   \* the empty folder field
          NoRec,      \* no file record in the trie
          Absent,     \* no entry in the SS metadata table (and no file)
          NoOwner,    \* an empty owner field
          NoSess,     \* socket_mutex not held
          NoAns,      \* no header received
          Failed,     \* recv_header returned -1
          MaxCrashes, \* bound on SS process deaths
          Requesters, \* users who send REQUESTACCESS to the SS
          ReqPerms    \* the permissions they request

\* PermissionType: absent from the ACL, PERM_READ, PERM_WRITE, in order.
PermLevels == {"none", "read", "write"}
Rank(p) == CASE p = "none" -> 0 [] p = "read" -> 1 [] p = "write" -> 2

Folders == {NoFolder, Dir}
AnyFile == CHOOSE f \in Files : TRUE
Acl == [Users -> PermLevels]
EmptyAcl == [u \in Users |-> "none"]

\* The commands a client thread forwards, and SET_OWNER, which CREATE sends
\* after its transaction.
Cmds == {"create", "delete", "undo", "meta", "add_acl", "rem_acl", "set_folder"}
WithPayload == {"add_acl", "rem_acl", "set_folder", "set_owner"}

VARIABLES
  rec,       \* rec[f]: the trie's file record, or NoRec
  active,    \* ss_registry[slot].is_active
  holder,    \* the session holding ss_registry[slot].socket_mutex
  pc,        \* pc[s]: where client thread s is in its handler
  cmd,       \* cmd[s], fil[s], tgt[s], perm[s]: the command being handled
  fil,
  tgt,
  perm,
  got,       \* got[s]: the msg_type of the last header s received
  up,        \* the SS process is running and its end of the socket open
  meta,      \* meta[f]: the SS's file_table entry for f, or Absent
  toSS,      \* frames sent by the NS and not yet read by the SS
  toNS,      \* frames sent by the SS and not yet read by the NS
  crashes,   \* SS process deaths
  ssPc,      \* the SS main thread: "wait" for the registration ACK, or "serve"
  reg,       \* the NS registration thread: "none", "ack1", "ack2" or "sync"
  pending    \* pending[f]: <<user, perm>> of the PENDING lines of f.requests

nsVars  == <<rec, active, holder>>
cVars   == <<pc, cmd, fil, tgt, perm, got>>
ssVars  == <<up, meta, toSS, toNS, crashes, pending>>
regVars == <<ssPc, reg>>
vars    == <<nsVars, cVars, ssVars, regVars>>

Rec  == [owner : Users \cup {NoOwner}, acl : Acl, folder : Folders]
Meta == [owner : Users \cup {NoOwner}, acl : Acl, folder : Folders]
Frame == [kind : {"hdr", "pay"}, cmd : Cmds \cup {"set_owner", "ack"}, file : Files,
          tgt : Users \cup {NoOwner}, perm : PermLevels, tag : Sessions \cup {NoSess}]
\* The MSG_ACK the NS's registration thread sends, twice.
NsAck == [kind |-> "hdr", cmd |-> "ack", file |-> AnyFile,
          tgt |-> NoOwner, perm |-> "none", tag |-> NoSess]
\* A frame the SS writes: an answer to session tag, or (tag NoSess) a
\* registration header or MSG_REGISTER_FILE payload, which carries the
\* file's owner and ACL.
Reply == [kind : {"hdr", "pay"}, cmd : {"ack", "meta_resp", "reg_file", "reg_done"},
          file : Files, rec : Rec \cup {NoRec}, tag : Sessions \cup {NoSess}]

-----------------------------------------------------------------------------
(* Name server *)

\* search_check_permission: the owner, or an ACL entry of at least p.
HasPermission(f, u, p) ==
  /\ rec[f] # NoRec
  /\ rec[f].owner = u \/ Rank(rec[f].acl[u]) >= Rank(p)

\* remove_storage_server on the slot's socket: if the slot is still active,
\* deactivate it and purge its files (search_purge_by_ss).
RemoveServer ==
  IF active THEN /\ active' = FALSE
                 /\ rec' = [f \in Files |-> NoRec]
            ELSE UNCHANGED <<active, rec>>

\* The header (and payload) a handler writes for command c.
Request(s, c) ==
  LET fr(k) == [kind |-> k, cmd |-> c, file |-> fil[s], tgt |-> tgt[s],
                perm |-> perm[s], tag |-> s]
  IN  IF c \in WithPayload THEN <<fr("hdr"), fr("pay")>> ELSE <<fr("hdr")>>

\* The handler has passed its checks and goes for the socket.
Begin(s, c, f, t, p) ==
  /\ pc'   = [pc   EXCEPT ![s] = "lock"]
  /\ cmd'  = [cmd  EXCEPT ![s] = c]
  /\ fil'  = [fil  EXCEPT ![s] = f]
  /\ tgt'  = [tgt  EXCEPT ![s] = t]
  /\ perm' = [perm EXCEPT ![s] = p]
  /\ got'  = [got  EXCEPT ![s] = NoAns]

\* The handler returns: its locals (header, target, permission) are gone.
Returned(s) ==
  /\ pc'   = [pc   EXCEPT ![s] = "idle"]
  /\ cmd'  = [cmd  EXCEPT ![s] = "create"]
  /\ fil'  = [fil  EXCEPT ![s] = AnyFile]
  /\ tgt'  = [tgt  EXCEPT ![s] = NoOwner]
  /\ perm' = [perm EXCEPT ![s] = "none"]

\* A handler that answers its client without using the session.
Answered(s) == UNCHANGED cVars

\* handle_create_request: the file must not exist and a server be active.
StartCreate(s, f) ==
  /\ pc[s] = "idle"
  /\ rec[f] = NoRec
  /\ active
  /\ Begin(s, "create", f, UserOf[s], "none")
  /\ UNCHANGED <<nsVars, ssVars>>
  /\ UNCHANGED regVars

\* handle_delete_request: search_delete_file unlinks the record if s's user
\* owns it; the SS is told only if its slot is active.
StartDelete(s, f) ==
  /\ pc[s] = "idle"
  /\ rec[f] # NoRec
  /\ rec[f].owner = UserOf[s]
  /\ rec' = [rec EXCEPT ![f] = NoRec]
  /\ IF active THEN Begin(s, "delete", f, NoOwner, "none") ELSE Answered(s)
  /\ UNCHANGED <<active, holder, ssVars>>
  /\ UNCHANGED regVars

\* handle_undo_request (WRITE needed) and handle_info_request (READ).
StartUndo(s, f) ==
  /\ pc[s] = "idle"
  /\ HasPermission(f, UserOf[s], "write")
  /\ active
  /\ Begin(s, "undo", f, NoOwner, "none")
  /\ UNCHANGED <<nsVars, ssVars>>
  /\ UNCHANGED regVars

StartInfo(s, f) ==
  /\ pc[s] = "idle"
  /\ HasPermission(f, UserOf[s], "read")
  /\ active
  /\ Begin(s, "meta", f, NoOwner, "none")
  /\ UNCHANGED <<nsVars, ssVars>>
  /\ UNCHANGED regVars

\* search_grant_permission / search_remove_permission: the owner of f
\* updates or adds t's entry, or drops it.
GrantPermission(f, u, t, p) ==
  /\ rec[f] # NoRec
  /\ rec[f].owner = u
  /\ rec' = [rec EXCEPT ![f].acl[t] = p]

RemovePermission(f, u, t) == GrantPermission(f, u, t, "none")

\* search_set_file_folder: owner only; the folder need not exist.
SetFileFolder(f, u, d) ==
  /\ rec[f] # NoRec
  /\ rec[f].owner = u
  /\ rec' = [rec EXCEPT ![f].folder = d]

\* handle_add_access / handle_rem_access / handle_move_file_request: the
\* trie is changed first; then the SS is told if the slot is active.
StartAddAccess(s, f, t, p) ==
  /\ pc[s] = "idle"
  /\ GrantPermission(f, UserOf[s], t, p)
  /\ IF active THEN Begin(s, "add_acl", f, t, p) ELSE Answered(s)
  /\ UNCHANGED <<active, holder, ssVars>>
  /\ UNCHANGED regVars

StartRemAccess(s, f, t) ==
  /\ pc[s] = "idle"
  /\ RemovePermission(f, UserOf[s], t)
  /\ IF active THEN Begin(s, "rem_acl", f, t, "none") ELSE Answered(s)
  /\ UNCHANGED <<active, holder, ssVars>>
  /\ UNCHANGED regVars

StartMove(s, f) ==
  /\ pc[s] = "idle"
  /\ SetFileFolder(f, UserOf[s], Dir)
  /\ IF active THEN Begin(s, "set_folder", f, NoOwner, "none") ELSE Answered(s)
  /\ UNCHANGED <<active, holder, ssVars>>
  /\ UNCHANGED regVars

\* Mutant: the request is sent without taking socket_mutex.
SendRequestUnlocked(s) ==
  /\ pc[s] = "lock"
  /\ holder' = s
  /\ toSS' = IF up THEN toSS \o Request(s, cmd[s]) ELSE toSS
  /\ pc' = [pc EXCEPT ![s] = "recv"]
  /\ UNCHANGED <<rec, active, cmd, fil, tgt, perm, got, up, meta, toNS, crashes,
                 pending>>
  /\ UNCHANGED regVars

\* Lock socket_mutex and send the request.  Once the SS is gone the bytes
\* are lost; a failed send_header takes the same path as the failed
\* recv_header that follows it in every handler.
SendRequest(s) ==
  /\ pc[s] = "lock"
  /\ holder = NoSess
  /\ holder' = s
  /\ toSS' = IF up THEN toSS \o Request(s, cmd[s]) ELSE toSS
  /\ pc' = [pc EXCEPT ![s] = "recv"]
  /\ UNCHANGED <<rec, active, cmd, fil, tgt, perm, got, up, meta, toNS, crashes,
                 pending>>
  /\ UNCHANGED regVars

\* search_add_file after the SS ACKed a CREATE: keeps an existing record.
AddFile(s) ==
  rec' = IF rec[fil[s]] = NoRec
           THEN [rec EXCEPT ![fil[s]] = [owner |-> UserOf[s], acl |-> EmptyAcl,
                                         folder |-> NoFolder]]
           ELSE rec

\* recv_header returns, the mutex is released, and the handler finishes.
\* CREATE adds the record on ACK and goes on to SET_OWNER; INFO removes the
\* server when the answer is not METADATA_RESP.
RecvReply(s) ==
  /\ pc[s] = "recv"
  /\ toNS # <<>>
  \* a payload read as a header: its first bytes are the file name
  /\ LET a == IF Head(toNS).kind = "pay" THEN "junk" ELSE Head(toNS).cmd IN
       /\ got' = [got EXCEPT ![s] = a]
       /\ toNS' = Tail(toNS)
       /\ holder' = NoSess
       /\ CASE cmd[s] = "create" /\ a = "ack" ->
                 /\ AddFile(s) /\ pc' = [pc EXCEPT ![s] = "owner"]
                 /\ UNCHANGED <<active, cmd, fil, tgt, perm>>
            [] cmd[s] = "meta" /\ a # "meta_resp" ->
                 RemoveServer /\ Returned(s)
            [] OTHER ->
                 UNCHANGED <<rec, active>> /\ Returned(s)
  /\ UNCHANGED <<up, meta, toSS, crashes, pending>>
  /\ UNCHANGED regVars

\* recv_header fails: the SS has closed its end and nothing is left to read.
\* CREATE, DELETE, UNDO and INFO remove the server; ADDACCESS, REMACCESS
\* and MOVE ignore the failure (the client's answer is then read from an
\* uninitialised ss_response, which no property here depends on).
RecvFail(s) ==
  /\ pc[s] = "recv"
  /\ ~up
  /\ toNS = <<>>
  /\ got' = [got EXCEPT ![s] = Failed]
  /\ holder' = NoSess
  /\ Returned(s)
  /\ IF cmd[s] \in {"create", "delete", "undo", "meta"}
       THEN RemoveServer ELSE UNCHANGED <<rec, active>>
  /\ UNCHANGED ssVars
  /\ UNCHANGED regVars

\* CREATE's MSG_INTERNAL_SET_OWNER: lock, send header and owner name, unlock,
\* and ACK the client; no answer is awaited.
SendOwner(s) ==
  /\ pc[s] = "owner"
  /\ holder = NoSess
  /\ toSS' = IF up THEN toSS \o Request(s, "set_owner") ELSE toSS
  /\ Returned(s)
  /\ UNCHANGED <<nsVars, got, up, meta, toNS, crashes, pending>>
  /\ UNCHANGED regVars

-----------------------------------------------------------------------------
(* Storage server: handle_ns_commands *)

Answer(fr, a) ==
  toNS' = Append(toNS, [kind |-> "hdr", cmd |-> a, file |-> AnyFile, rec |-> NoRec,
                        tag |-> fr.tag])
NoAnswer == UNCHANGED toNS

\* persistence.c: each entry point changes the file table and saves it.
AddMetadataEntry(f) ==
  meta' = IF meta[f] = Absent
            THEN [meta EXCEPT ![f] = [owner |-> NoOwner, acl |-> EmptyAcl,
                                      folder |-> NoFolder]]
            ELSE meta
RemoveMetadataEntry(f) == meta' = [meta EXCEPT ![f] = Absent]
PersistSetOwner(f, o) ==
  meta' = IF meta[f] # Absent THEN [meta EXCEPT ![f].owner = o] ELSE meta
PersistSetAcl(f, t, p) ==
  meta' = IF meta[f] # Absent THEN [meta EXCEPT ![f].acl[t] = p] ELSE meta
PersistRemoveAcl(f, t) ==
  meta' = IF meta[f] # Absent THEN [meta EXCEPT ![f].acl[t] = "none"] ELSE meta

\* The command's case, given the header fr and the rest of the stream.
\* A case that reads a payload takes the next frame with it.
Serve ==
  /\ up
  /\ ssPc = "serve"
  /\ toSS # <<>>
  /\ LET fr == Head(toSS)
         f  == fr.file
         \* a stray ACK, or a payload read as a header: the default branch
         op == IF fr.kind = "pay" \/ fr.cmd = "ack" THEN "unknown" ELSE fr.cmd
         withPay == Len(toSS) >= 2 /\ toSS' = Tail(Tail(toSS))
         hdrOnly == toSS' = Tail(toSS)
     IN
     CASE op = "unknown" ->
            hdrOnly /\ NoAnswer /\ UNCHANGED meta
       [] op = "create" ->
            \* fopen("w") creates or truncates the file
            hdrOnly /\ Answer(fr, "ack") /\ AddMetadataEntry(f)
       [] op = "delete" ->
            \* remove() fails for a missing file: no answer at all
            /\ hdrOnly
            /\ \/ meta[f] # Absent /\ RemoveMetadataEntry(f) /\ Answer(fr, "ack")
               \/ meta[f] = Absent /\ NoAnswer /\ UNCHANGED meta
       [] op = "undo" ->
            \* perform_undo succeeds if there is an unused backup and no
            \* sentence lock; otherwise no answer at all
            /\ hdrOnly /\ UNCHANGED meta
            /\ \/ meta[f] # Absent /\ Answer(fr, "ack")
               \/ NoAnswer
       [] op = "meta" ->
            hdrOnly /\ Answer(fr, "meta_resp") /\ UNCHANGED meta
       [] op = "set_owner" ->
            withPay /\ NoAnswer /\ PersistSetOwner(f, fr.tgt)
       [] op = "add_acl" ->
            withPay /\ Answer(fr, "ack") /\ PersistSetAcl(f, fr.tgt, fr.perm)
       [] op = "rem_acl" ->
            withPay /\ Answer(fr, "ack") /\ PersistRemoveAcl(f, fr.tgt)
       [] op = "set_folder" ->
            \* no case: the default branch logs; payload unread, no answer
            hdrOnly /\ NoAnswer /\ UNCHANGED meta
  /\ UNCHANGED <<nsVars, cVars, up, crashes, pending>>
  /\ UNCHANGED regVars

\* The SS process dies; the bytes it had not read are lost; its metadata
\* table was saved on every change.
Crash ==
  /\ up
  /\ crashes < MaxCrashes
  /\ up' = FALSE
  /\ toSS' = <<>>
  /\ crashes' = crashes + 1
  /\ UNCHANGED <<nsVars, cVars, meta, toNS, pending>>
  /\ UNCHANGED regVars

-----------------------------------------------------------------------------
(* Registration of an SS that was started again.  The SS main thread      *)
(* (register_with_name_server) and the NS's registration thread            *)
(* (handle_storage_server_connection) exchange frames on the new session;  *)
(* the slot is active, and handlers use the socket, from the moment        *)
(* register_storage_server fills it.                                       *)

\* The SS is started (load_metadata reads back the table it saved on every
\* change, so meta is kept), connects and sends MSG_REGISTER; the NS's
\* register_storage_server takes the free slot under ss_registry_mutex and
\* sets is_active and the new socket.  The slot is free once the NS has
\* removed the dead server; its old registration thread has ended and the
\* old socket is never read again once no handler holds socket_mutex.
Register ==
  /\ ~up
  /\ ~active
  /\ holder = NoSess
  /\ reg = "none"
  /\ crashes <= MaxCrashes
  /\ up' = TRUE
  /\ active' = TRUE
  /\ toSS' = <<>>
  /\ toNS' = <<>>
  /\ ssPc' = "wait"
  /\ reg' = "ack1"
  /\ UNCHANGED <<rec, holder, cVars, meta, crashes, pending>>

\* The NS closes the session socket: nothing is read from it any more.
NsClose == toNS' = <<>>

\* register_storage_server's ACK.  To a dead SS the send may still succeed;
\* if it fails, the thread closes the socket and returns, leaving the slot
\* active.
RegAck1 ==
  /\ reg = "ack1"
  /\ \/ /\ toSS' = IF up THEN Append(toSS, NsAck) ELSE toSS
        /\ reg' = "ack2"
        /\ UNCHANGED toNS
     \/ /\ ~up
        /\ reg' = "none"
        /\ NsClose
        /\ UNCHANGED toSS
  /\ UNCHANGED <<nsVars, cVars, up, meta, crashes, pending, ssPc>>

\* handle_storage_server_connection's second ACK; if the send fails the
\* server is removed and the socket closed.
RegAck2 ==
  /\ reg = "ack2"
  /\ \/ /\ toSS' = IF up THEN Append(toSS, NsAck) ELSE toSS
        /\ reg' = "sync"
        /\ UNCHANGED <<rec, active, toNS>>
     \/ /\ ~up
        /\ reg' = "none"
        /\ RemoveServer
        /\ NsClose
        /\ UNCHANGED toSS
  /\ UNCHANGED <<holder, cVars, up, meta, crashes, pending, ssPc>>

\* The MSG_REGISTER_FILE header and payload for each file_table entry, in
\* table order, then MSG_REGISTER_COMPLETE.
RegFrame(k, c, f) ==
  [kind |-> k, cmd |-> c, file |-> f, tag |-> NoSess,
   rec |-> IF k = "pay" THEN [owner |-> meta[f].owner, acl |-> meta[f].acl,
                              folder |-> NoFolder]
                        ELSE NoRec]
FileList ==
  LET fs == SetToSeq({f \in Files : meta[f] # Absent}) IN
  FlattenSeq([i \in 1..Len(fs) |-> <<RegFrame("hdr", "reg_file", fs[i]),
                                     RegFrame("pay", "reg_file", fs[i])>>])
    \o <<RegFrame("hdr", "reg_done", AnyFile)>>

\* register_with_name_server waits for the ACK.  Any other header is fatal:
\* it returns -1 and main exits.  On the ACK it sends the file list, and
\* main enters handle_ns_commands.
SsRegister ==
  /\ up
  /\ ssPc = "wait"
  /\ toSS # <<>>
  /\ IF Head(toSS).kind = "hdr" /\ Head(toSS).cmd = "ack"
       THEN /\ toSS' = Tail(toSS)
            /\ toNS' = toNS \o FileList
            /\ ssPc' = "serve"
            /\ UNCHANGED <<up, crashes>>
       ELSE /\ up' = FALSE
            /\ toSS' = <<>>
            /\ crashes' = crashes + 1
            /\ UNCHANGED <<toNS, ssPc>>
  /\ UNCHANGED <<nsVars, cVars, meta, pending, reg>>

\* search_rebuild_add_file for the file record payload p: the one slot's
\* record is added, or refreshed (the folder is not sent).
RebuildAddFile(p) == [rec EXCEPT ![p.file] = p.rec]

\* The sync loop's "goto disconnect": remove_storage_server purges the
\* slot and the socket is closed, on which the SS's handle_ns_commands
\* sees EOF and the SS process ends.
SyncDisconnect ==
  /\ reg' = "none"
  /\ RemoveServer
  /\ NsClose
  /\ up' = FALSE
  /\ toSS' = <<>>
  /\ crashes' = IF up THEN crashes + 1 ELSE crashes

\* One pass of the file sync loop: recv_header, then for MSG_REGISTER_FILE
\* recv_all of the payload (the next frame, whatever it is) and the
\* rebuild; MSG_REGISTER_COMPLETE ends the thread; any other header, or a
\* failed recv, disconnects.
SyncRecv ==
  /\ reg = "sync"
  /\ \/ /\ toNS # <<>>
        /\ LET fr == Head(toNS) IN
           CASE fr.kind = "hdr" /\ fr.cmd = "reg_file" ->
                  /\ Len(toNS) >= 2
                  /\ toNS' = Tail(Tail(toNS))
                  /\ rec' = IF toNS[2].kind = "pay" /\ toNS[2].cmd = "reg_file"
                              THEN RebuildAddFile(toNS[2]) ELSE rec
                  /\ UNCHANGED <<active, reg, up, toSS, crashes>>
             [] fr.kind = "hdr" /\ fr.cmd = "reg_done" ->
                  /\ toNS' = Tail(toNS)
                  /\ reg' = "none"
                  /\ UNCHANGED <<rec, active, up, toSS, crashes>>
             [] OTHER -> SyncDisconnect
     \/ /\ ~up
        /\ toNS = <<>>
        /\ SyncDisconnect
  /\ UNCHANGED <<holder, cVars, meta, pending, ssPc>>

-----------------------------------------------------------------------------
(* Storage server: access requests, sent by clients straight to the SS    *)
(* (client_handler_thread).  Each command is one step of a client thread; *)
(* the NS is not told.  The requests file of f outlives f.               *)

\* check_file_owner: f's table entry names u as owner.
SsOwner(f, u) == meta[f] # Absent /\ meta[f].owner = u

\* request_file_access: refused (-2) when a PENDING line for (u, p) exists,
\* else a PENDING line is appended.
RequestFileAccess(f, u, p) ==
  /\ <<u, p>> \notin pending[f]
  /\ pending' = [pending EXCEPT ![f] = @ \cup {<<u, p>>}]

\* approve_access_request: 0 without a PENDING (r, p) line; else the line
\* becomes APPROVED and persist_set_acl gives r the permission p.
ApproveAccessRequest(f, r, p) ==
  /\ <<r, p>> \in pending[f]
  /\ pending' = [pending EXCEPT ![f] = @ \ {<<r, p>>}]
  /\ PersistSetAcl(f, r, p)

\* deny_access_request: every PENDING line of r, whatever its permission,
\* becomes DENIED; 0 when there is none.
DenyAccessRequest(f, r) ==
  /\ \E q \in pending[f] : q[1] = r
  /\ pending' = [pending EXCEPT ![f] = {q \in @ : q[1] # r}]

\* REQUESTACCESS: the file exists, u is not its owner and holds less than p.
RequestAccess(u, f, p) ==
  /\ up
  /\ meta[f] # Absent
  /\ ~SsOwner(f, u)
  /\ Rank(meta[f].acl[u]) < Rank(p)
  /\ RequestFileAccess(f, u, p)
  /\ UNCHANGED <<nsVars, cVars, up, meta, toSS, toNS, crashes>>
  /\ UNCHANGED regVars

\* APPROVEREQUEST, refused unless o owns f.
ApproveRequest(o, f, r, p) ==
  /\ up
  /\ SsOwner(f, o)
  /\ ApproveAccessRequest(f, r, p)
  /\ UNCHANGED <<nsVars, cVars, up, toSS, toNS, crashes>>
  /\ UNCHANGED regVars

\* DENYREQUEST, refused unless o owns f.
DenyRequest(o, f, r) ==
  /\ up
  /\ SsOwner(f, o)
  /\ DenyAccessRequest(f, r)
  /\ UNCHANGED <<nsVars, cVars, up, meta, toSS, toNS, crashes>>
  /\ UNCHANGED regVars

-----------------------------------------------------------------------------
\* The state once the SS has registered at start-up with an empty table
\* and read both ACKs, before any client connects.
Init ==
  /\ rec = [f \in Files |-> NoRec]
  /\ active = TRUE
  /\ holder = NoSess
  /\ pc = [s \in Sessions |-> "idle"]
  /\ cmd = [s \in Sessions |-> "create"]
  /\ fil = [s \in Sessions |-> AnyFile]
  /\ tgt = [s \in Sessions |-> NoOwner]
  /\ perm = [s \in Sessions |-> "none"]
  /\ got = [s \in Sessions |-> NoAns]
  /\ up = TRUE
  /\ meta = [f \in Files |-> Absent]
  /\ toSS = <<>>
  /\ toNS = <<>>
  /\ crashes = 0
  /\ pending = [f \in Files |-> {}]
  /\ ssPc = "serve"
  /\ reg = "none"

\* Everything but re-registration.
Serving ==
  \/ \E s \in Sessions, f \in Files :
       \/ StartCreate(s, f) \/ StartDelete(s, f) \/ StartUndo(s, f)
       \/ StartInfo(s, f) \/ StartMove(s, f)
       \/ \E t \in Users : \/ StartRemAccess(s, f, t)
                           \/ \E p \in {"read", "write"} : StartAddAccess(s, f, t, p)
  \/ \E s \in Sessions : SendRequest(s) \/ RecvReply(s) \/ RecvFail(s) \/ SendOwner(s)
  \/ Serve
  \/ Crash
  \/ \E f \in Files, r \in Requesters :
       \/ \E p \in ReqPerms : RequestAccess(r, f, p)
       \/ \E o \in Users : \/ \E p \in ReqPerms : ApproveRequest(o, f, r, p)
                           \/ DenyRequest(o, f, r)

\* Re-registration of the SS after it died.
Reregistration == Register \/ RegAck1 \/ RegAck2 \/ SsRegister \/ SyncRecv

Next == Serving \/ Reregistration

Spec == Init /\ [][Next]_vars

\* The NS's handler threads and the SS's command thread are scheduled by
\* the OS: each keeps running while it can.  Clients are not obliged to
\* send anything, and the SS is not obliged to die.
Fairness ==
  /\ \A s \in Sessions : /\ WF_vars(SendRequest(s)) /\ WF_vars(RecvReply(s))
                         /\ WF_vars(RecvFail(s))    /\ WF_vars(SendOwner(s))
  /\ WF_vars(Serve)
  /\ WF_vars(RegAck1) /\ WF_vars(RegAck2) /\ WF_vars(SsRegister) /\ WF_vars(SyncRecv)

FairSpec == Spec /\ Fairness
=============================================================================
