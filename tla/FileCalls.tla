------------------------------ MODULE FileCalls ------------------------------
(***************************************************************************)
(* system.file: calls on one file and its directory.  A call is checked on *)
(* the loop, its work runs on a thread of libuv's pool, and its functions  *)
(* are called back on the loop.  Works of several threads interleave at    *)
(* their system calls: nothing orders calls that were not waited for.      *)
(*                                                                         *)
(* A file keeps its inode number while it is unlinked and still open; its  *)
(* text is the sequence of the calls that wrote it.                        *)
(***************************************************************************)
EXTENDS Naturals, SequencesExt

CONSTANTS
  FileCall,
  Kinds,   (* The kinds of call made, of AllKinds.                         *)
  Threads  (* UV_THREADPOOL_SIZE.                                          *)

Reads == {"readText", "readArrayBuffer"}
Writes == {"append", "overwrite"}
Unlinks == {"delete", "move"}
AllKinds == Reads \cup Writes \cup Unlinks \cup {"mkdir", "rmdir", "access", "list"}

ASSUME FileCallsAssumption ==
  /\ IsFiniteSet(FileCall) /\ Threads \in Nat \ {0} /\ Kinds \subseteq AllKinds

Inode == 1..Cardinality(FileCall)

VARIABLES
  kind,     (* what each call does; "none" before it is made               *)
  pool,     (* works queued for the pool                                   *)
  pc,       (* where the work of each call is                              *)
  fd,       (* the inode each work has open, 0 for none                    *)
  len,      (* FileReq::len, for reads                                     *)
  result,   (* FileReq::r: "ok", "error"                                   *)
  dir,      (* whether the directory exists                                *)
  file,     (* the inode of the file, 0 for none                           *)
  text,     (* the text of each inode                                      *)
  fileDetached, (* the instance is detached                                *)
  heard,    (* history: what each call was told                            *)
  wiped     (* history: inodes opened to be overwritten                    *)

fcVars == <<kind, pool, pc, fd, len, result, dir, file, text, fileDetached,
            heard, wiped>>

FileInit ==
  /\ kind = [c \in FileCall |-> "none"] /\ pool = <<>>
  /\ pc = [c \in FileCall |-> "start"]
  /\ fd = [c \in FileCall |-> 0] /\ len = [c \in FileCall |-> 0]
  /\ result = [c \in FileCall |-> "ok"]
  /\ dir \in BOOLEAN /\ file = 0 /\ text = [n \in Inode |-> <<>>]
  /\ fileDetached = FALSE /\ heard = [c \in FileCall |-> "nothing"] /\ wiped = {}

Goto(c, where) == pc' = [pc EXCEPT ![c] = where]
Finish(c, r) == Goto(c, "done") /\ result' = [result EXCEPT ![c] = r]

(* __file_load, __dir_load, file_copy_or_move, file_access_or_delete: the  *)
(* work is queued, or the call fails at once for its arguments.            *)
MakeCall(c, k) ==
  /\ kind[c] = "none" /\ ~fileDetached
  /\ kind' = [kind EXCEPT ![c] = k]
  /\ \/ pool' = Append(pool, c) /\ Goto(c, "queued") /\ UNCHANGED heard
     \/ /\ heard' = [heard EXCEPT ![c] = "error"] /\ Goto(c, "heard")
        /\ UNCHANGED pool
  /\ UNCHANGED <<fd, len, result, dir, file, text, fileDetached, wiped>>

Working == {c \in FileCall : pc[c] \notin {"start", "queued", "done", "heard"}}

FirstStep(k) == CASE k = "readText" -> "stat"
                  [] k = "readArrayBuffer" \/ k \in Writes -> "open"
                  [] OTHER -> k

ThreadTakes ==
  /\ pool # <<>> /\ Cardinality(Working) < Threads
  /\ Goto(Head(pool), FirstStep(kind[Head(pool)]))
  /\ pool' = Tail(pool)
  /\ UNCHANGED <<kind, fd, len, result, dir, file, text, fileDetached, heard, wiped>>

-----------------------------------------------------------------------------
(* __load_file_work_cb *)

(* A read of the whole file first asks for its length. *)
StatFile(c) ==
  /\ pc[c] = "stat"
  /\ IF file = 0 THEN Finish(c, "error") /\ UNCHANGED len
     ELSE /\ len' = [len EXCEPT ![c] = Len(text[file])]
          /\ Goto(c, "open") /\ UNCHANGED result
  /\ UNCHANGED <<kind, pool, fd, dir, file, text, fileDetached, heard, wiped>>

FreshInode == CHOOSE n \in Inode : n # file /\ text[n] = <<>> /\ \A c \in FileCall : fd[c] # n

(* open, with the flags of the call both times; O_CREAT only for writes.   *)
OpenFile(c) ==
  /\ pc[c] \in {"open", "reopen"}
  /\ \/ /\ file # 0 \/ (dir /\ kind[c] \in Writes)
        /\ file' = IF file = 0 THEN FreshInode ELSE file
        /\ fd' = [fd EXCEPT ![c] = file']
        /\ text' = IF kind[c] = "overwrite" THEN [text EXCEPT ![file'] = <<>>] ELSE text
        /\ wiped' = IF kind[c] = "overwrite" THEN wiped \cup {file'} ELSE wiped
        /\ Goto(c, "transfer") /\ UNCHANGED result
     \/ /\ file = 0 /\ (~dir \/ kind[c] \in Reads)
        /\ IF pc[c] = "open" THEN Goto(c, "create_dir") /\ UNCHANGED result
                             ELSE Finish(c, "error")
        /\ UNCHANGED <<fd, file, text, wiped>>
  /\ UNCHANGED <<kind, pool, len, dir, fileDetached, heard>>

(* __create_dir for the directory of a file that could not be opened, even *)
(* for a read; whether it fails makes no difference.                       *)
CreateParent(c) ==
  /\ pc[c] = "create_dir"
  /\ dir' = TRUE /\ Goto(c, "reopen")
  /\ UNCHANGED <<kind, pool, fd, len, result, file, text, fileDetached, heard, wiped>>

(* Mutant: the flags that making the directory has overwritten decide      *)
(* whether to seek, on a file that was not opened to append.               *)
TransferAtStart(c) ==
  /\ pc[c] = "transfer"
  /\ text' = IF kind[c] \in Reads THEN text
             ELSE [text EXCEPT ![fd[c]] = IF @ = <<>> THEN <<c>>
                                                     ELSE [@ EXCEPT ![1] = c]]
  /\ Finish(c, "ok")
  /\ UNCHANGED <<kind, pool, fd, len, dir, file, fileDetached, heard, wiped>>

(* lseek and read, or write: for O_APPEND at the end, else at the start.   *)
(* A read or write may fail; a read of a given length may ask for any.     *)
Transfer(c) ==
  /\ pc[c] = "transfer"
  /\ \/ /\ text' = CASE kind[c] = "append" ->
                          [text EXCEPT ![fd[c]] = Append(@, c)]
                     [] kind[c] = "overwrite" ->
                          [text EXCEPT ![fd[c]] = IF @ = <<>> THEN <<c>>
                                                  ELSE [@ EXCEPT ![1] = c]]
                     [] OTHER -> text
        /\ len' = [len EXCEPT ![c] =
             IF kind[c] = "readText" /\ @ > Len(text[fd[c]]) THEN Len(text[fd[c]])
                                                              ELSE @]
        /\ Finish(c, "ok")
     \/ Finish(c, "error") /\ UNCHANGED <<text, len>>
  /\ UNCHANGED <<kind, pool, fd, dir, file, fileDetached, heard, wiped>>

-----------------------------------------------------------------------------
(* __load_dir_work_cb, and the requests of uv_fs *)

(* __create_dir of mkdir: another call may make the directory after access *)
(* did not find it, and mkdir fails.                                       *)
Mkdir(c) ==
  /\ pc[c] \in {"mkdir", "mkdir2"}
  /\ IF dir THEN Finish(c, IF pc[c] = "mkdir" THEN "ok" ELSE "error") /\ UNCHANGED dir
     ELSE IF pc[c] = "mkdir" THEN Goto(c, "mkdir2") /\ UNCHANGED <<dir, result>>
     ELSE dir' = TRUE /\ Finish(c, "ok")
  /\ UNCHANGED <<kind, pool, fd, len, file, text, fileDetached, heard, wiped>>

(* __remove_dir: the entries (if recursive), then the directory.           *)
RemoveEntries(c) ==
  /\ pc[c] = "rmdir"
  /\ IF ~dir THEN Finish(c, "error") /\ UNCHANGED file
     ELSE file' \in {0, file} /\ Goto(c, "rmdir2") /\ UNCHANGED result
  /\ UNCHANGED <<kind, pool, fd, len, dir, text, fileDetached, heard, wiped>>

RemoveDir(c) ==
  /\ pc[c] = "rmdir2"
  /\ IF dir /\ file = 0 THEN dir' = FALSE /\ Finish(c, "ok")
                        ELSE Finish(c, "error") /\ UNCHANGED dir
  /\ UNCHANGED <<kind, pool, fd, len, file, text, fileDetached, heard, wiped>>

(* uv_fs_unlink and uv_fs_rename take the file away; uv_fs_access and the  *)
(* work of list and get only look.                                         *)
UnlinkOrLook(c) ==
  /\ pc[c] \in Unlinks \cup {"access", "list"}
  /\ file' = IF pc[c] \in Unlinks THEN 0 ELSE file
  /\ Finish(c, IF file # 0 THEN "ok" ELSE "error")
  /\ UNCHANGED <<kind, pool, fd, len, dir, text, fileDetached, heard, wiped>>

-----------------------------------------------------------------------------

(* __load_after_work_cb, __load_dir_after_work_cb, __uv_fs_req_cb: the     *)
(* functions are called unless the instance is detached.                   *)
AfterWork(c) ==
  /\ pc[c] = "done"
  /\ heard' = [heard EXCEPT ![c] = IF fileDetached THEN @ ELSE result[c]]
  /\ Goto(c, "heard")
  /\ UNCHANGED <<kind, pool, fd, len, result, dir, file, text, fileDetached, wiped>>

FileDetach ==
  /\ ~fileDetached /\ fileDetached' = TRUE
  /\ UNCHANGED <<kind, pool, pc, fd, len, result, dir, file, text, heard, wiped>>

FileFinished ==
  /\ \A c \in FileCall : pc[c] \in {"start", "heard"}
  /\ UNCHANGED fcVars

FileNext ==
  \/ \E c \in FileCall :
       \/ \E k \in Kinds : MakeCall(c, k)
       \/ StatFile(c) \/ OpenFile(c) \/ CreateParent(c) \/ Transfer(c)
       \/ Mkdir(c) \/ RemoveEntries(c) \/ RemoveDir(c) \/ UnlinkOrLook(c)
       \/ AfterWork(c)
  \/ ThreadTakes \/ FileDetach \/ FileFinished

FileSpec == FileInit /\ [][FileNext]_fcVars

-----------------------------------------------------------------------------
(* Properties *)

FileTypeOK ==
  /\ kind \in [FileCall -> AllKinds \cup {"none"}]
  /\ fd \in [FileCall -> Inode \cup {0}] /\ file \in Inode \cup {0}
  /\ dir \in BOOLEAN /\ fileDetached \in BOOLEAN
  /\ result \in [FileCall -> {"ok", "error"}]
  /\ heard \in [FileCall -> {"nothing", "ok", "error"}]
  /\ \A n \in Inode : ToSet(text[n]) \subseteq FileCall
  /\ Cardinality(Working) <= Threads

(* A text that was appended and whose success was told is in the file,     *)
(* once, however the calls of several threads interleave with it, makes    *)
(* its directory or takes it away, unless the file was also overwritten.   *)
AppendsKept ==
  \A c \in FileCall :
    (kind[c] = "append" /\ heard[c] = "ok" /\ fd[c] \notin wiped) =>
      Cardinality({k \in DOMAIN text[fd[c]] : text[fd[c]][k] = c}) = 1

=============================================================================
