----------------------------- MODULE StaticFiles -----------------------------
(***************************************************************************)
(* A static or media file served without a reverse proxy (handle_file) to  *)
(* a browser that keeps it and asks again with If-None-Match, while a      *)
(* deploy replaces or removes the file between the handler's system calls: *)
(* last_write_time, file_size, open and read are four looks at the disk.   *)
(*                                                                         *)
(* Writes are numbered; the number stands for the contents and for the     *)
(* modification time, which no two writes share.                           *)
(***************************************************************************)
EXTENDS Integers

CONSTANTS
  FileSizes,     (* sizes of the contents                                  *)
  NoFile,        (* no file, no validator                                  *)
  MaxWrites,     (* bound: times the file is written                       *)
  MaxRemovals    (* bound: times it is removed                             *)

ASSUME FilesAssumption == MaxWrites \in Nat /\ MaxRemovals \in Nat

VARIABLES
  disk,          (* the file: its write and its size, or NoFile            *)
  writes, removals,
  pc, mtime, etag, body,  (* handle_file's progress and its locals         *)
  since,         (* history: the last write when the request arrived       *)
  cache          (* the browser's copy: validator and contents             *)

fileVars == <<disk, writes, removals, pc, mtime, etag, body, since, cache>>

Deployed == UNCHANGED <<pc, mtime, etag, body, since, cache>>
Handled  == UNCHANGED <<disk, writes, removals, since>>

-----------------------------------------------------------------------------
Write(size) ==
  /\ writes < MaxWrites /\ writes' = writes + 1
  /\ disk' = [write |-> writes + 1, size |-> size]
  /\ UNCHANGED removals /\ Deployed

RemoveFile ==
  /\ disk # NoFile /\ removals < MaxRemovals /\ removals' = removals + 1
  /\ disk' = NoFile
  /\ UNCHANGED writes /\ Deployed

(* The request carries the validator of the browser's copy; a path that    *)
(* leaves the root is refused.                                             *)
Get ==
  /\ pc \in {"idle", "ok", "not_modified", "not_found", "forbidden"}
  /\ pc' \in {"mtime", "forbidden"}
  /\ since' = IF disk = NoFile THEN 0 ELSE disk.write
  /\ UNCHANGED <<disk, writes, removals, mtime, etag, body, cache>>

LastWriteTime ==
  /\ pc = "mtime" /\ pc' = "size"
  /\ mtime' = IF disk = NoFile THEN NoFile ELSE disk.write
  /\ Handled /\ UNCHANGED <<etag, body, cache>>

(* file_size overwrites last_write_time's error code: the validator exists *)
(* when the size could be read.  A match is answered 304.                  *)
FileSize ==
  /\ pc = "size"
  /\ etag' = IF disk = NoFile THEN NoFile ELSE <<mtime, disk.size>>
  /\ pc' = IF etag' # NoFile /\ cache # NoFile /\ etag' = cache.etag
           THEN "not_modified" ELSE "open"
  /\ Handled /\ UNCHANGED <<mtime, body, cache>>

(* ifstream: what is open is read whole, even when it is replaced now.     *)
OpenFile ==
  /\ pc = "open"
  /\ IF disk = NoFile THEN pc' = "not_found" /\ UNCHANGED body
                    ELSE pc' = "answer" /\ body' = disk.write
  /\ Handled /\ UNCHANGED <<mtime, etag, cache>>

(* 200 with no-cache: the browser keeps it with its validator, if any.     *)
(* The bug: the validator is taken after the contents were read.           *)
AnswerLateEtag ==
  /\ pc = "answer" /\ pc' = "ok"
  /\ cache' = [etag |-> IF disk = NoFile THEN NoFile ELSE <<disk.write, disk.size>>,
               body |-> body]
  /\ Handled /\ UNCHANGED <<mtime, etag, body>>

Answer ==
  /\ pc = "answer" /\ pc' = "ok"
  /\ cache' = [etag |-> etag, body |-> body]
  /\ Handled /\ UNCHANGED <<mtime, etag, body>>

-----------------------------------------------------------------------------
FileInit ==
  /\ writes = 1 /\ removals = 0 /\ cache = NoFile /\ since = 0
  /\ disk \in [write : {1}, size : FileSizes]
  /\ pc = "idle" /\ mtime = NoFile /\ etag = NoFile /\ body = 0

FileNext ==
  \/ \E size \in FileSizes : Write(size)
  \/ RemoveFile \/ Get \/ LastWriteTime \/ FileSize \/ OpenFile \/ Answer

FileSpec == FileInit /\ [][FileNext]_fileVars

-----------------------------------------------------------------------------
(* The copy a 200 or a 304 leaves the visitor with is at least as new as   *)
(* the file was when the request arrived, although the validator and the   *)
(* contents are read at different moments, as long as the modification     *)
(* time could be read.                                                     *)
NeverStale ==
  pc = "ok" \/ (pc = "not_modified" /\ mtime # NoFile) => cache.body >= since
=============================================================================
