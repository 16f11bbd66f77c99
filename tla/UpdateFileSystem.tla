--------------------------- MODULE UpdateFileSystem ---------------------------
(***************************************************************************)
(* fatfs_update_filesystem.cpp: the file system the uploads and the update *)
(* installer write through.  A file's content is one value; what matters   *)
(* is which calls change the directory, and that a call may report a       *)
(* failure both when it did nothing and when it did its work and only the  *)
(* check after it failed.  One FatFs call is taken to be atomic under a    *)
(* power loss; a call of this layer that makes several is several steps.   *)
(***************************************************************************)
EXTENDS Integers

CONSTANTS Paths,     \* the paths a behaviour names
          Contents   \* what a file can hold, Missing and Partial excepted

VARIABLE fs          \* the directory: a content for every path

Missing == "missing"
Partial == "partial"  \* a file that is being written, not synced yet

ASSUME UpdateFileSystemAssumption == Missing \notin Contents /\ Partial \notin Contents

FsTypeOK == fs \in [Paths -> Contents \cup {Missing, Partial}]

Exists(p) == fs[p] # Missing

\* f_rename; Rename refuses a target that exists, and a missing source.
Moved(p, q) ==
  /\ Exists(p) /\ ~Exists(q)
  /\ fs' = [fs EXCEPT ![q] = fs[p], ![p] = Missing]

Removed(p) == fs' = [fs EXCEPT ![p] = Missing]

\* Rename(p, q, false) returns true ...
RenameOk(p, q) == Moved(p, q)

\* ... or false: refused, failed, or done but not confirmed by the Stat calls
\* that follow f_rename.
RenameFails(p, q) == UNCHANGED fs \/ Moved(p, q)

\* RemoveFile returns true when the file is gone, also if it never was there.
RemoveFileOk(p) == Removed(p)

RemoveFileFails(p) == Exists(p) /\ (UNCHANGED fs \/ Removed(p))

\* CreateFileFresh wants a name that is free.
CreateFileFreshOk(p) == ~Exists(p) /\ fs' = [fs EXCEPT ![p] = Partial]

CreateFileFreshFails(p) == UNCHANGED fs \/ CreateFileFreshOk(p)

\* Write and Sync: the content is known only after VerifySyncedWrite read it
\* back.
SyncOk(p, content) == fs[p] = Partial /\ fs' = [fs EXCEPT ![p] = content]
=============================================================================
