---------------------------- MODULE FileTransaction ----------------------------
(***************************************************************************)
(* developer_file_transaction.cpp: one upload after the other to one       *)
(* target.  The body goes to a temporary sibling; Finish verifies it, moves *)
(* the old target aside to a backup sibling, moves the new file in, and    *)
(* removes the backup; every failure unwinds through Abort.  Every call of *)
(* the file system is a step, may fail, and may be the last one before a   *)
(* power loss.                                                             *)
(***************************************************************************)
EXTENDS UpdateFileSystem

CONSTANTS Temps, Backups,   \* the sibling names SelectSiblingPath tries
          Occupied,         \* the siblings that are somebody else's files
          Versions,         \* contents users upload
          Size,             \* chunks of a body
          MaxUploads        \* uploads in one behaviour (a bound)

Foreign == "foreign"   \* somebody else's file
Bad == "bad"           \* a body that does not match the announced hash
None == "none"         \* an empty path buffer

ASSUME FileTransactionAssumption ==
  /\ Paths = {"target"} \cup Temps \cup Backups
  /\ "target" \notin Temps \cup Backups /\ Temps \cap Backups = {}
  /\ None \notin Paths /\ Occupied \subseteq Temps \cup Backups
  /\ Contents = Versions \cup {Foreign, Bad}
  /\ Foreign \notin Versions /\ Bad \notin Versions /\ Foreign # Bad
  /\ Size \in Nat \ {0} /\ MaxUploads \in Nat

VARIABLES pc,              \* where the transaction is
          want,            \* the content the announced hash stands for
          body,            \* the content the client really sends
          received,        \* received_, in chunks
          target_existed,  \* target_existed_
          discard,         \* discard_
          temporary_path, backup_path,
          status,          \* what the last upload returned, or will return
          uploads,         \* uploads begun
          kept,            \* the target's content when the upload began
          mistaken,        \* has a failed Stat put a foreign file's name in
                           \* backup_path_ (history, for the properties)?
          faults           \* has a file system call failed or power been lost?

txVars == <<want, body, received, target_existed, discard, uploads, kept,
            mistaken>>
vars == <<fs, pc, temporary_path, backup_path, status, faults, txVars>>

Pcs == {"Idle", "Open", "Sync", "Install", "Replace", "Undo", "SyncDir", "Rollback",
        "RollbackRename", "DropBackup", "AbortTemp", "AbortRestore"}

Init ==
  /\ \E c \in {Missing} \cup Versions :
       fs = [p \in Paths |-> IF p = "target" THEN c
                            ELSE IF p \in Occupied THEN Foreign ELSE Missing]
  /\ pc = "Idle" /\ want = Missing /\ body = Missing /\ received = 0
  /\ target_existed = FALSE /\ discard = FALSE
  /\ temporary_path = None /\ backup_path = None
  /\ status = "None" /\ uploads = 0 /\ kept = fs["target"]
  /\ mistaken = FALSE /\ faults = FALSE

-----------------------------------------------------------------------------
(* Begin. *)

\* What every Begin sets: the upload's content and the reset members.
Announce(v, b) ==
  /\ pc = "Idle" /\ uploads < MaxUploads
  /\ uploads' = uploads + 1
  /\ want' = v /\ body' = b /\ received' = 0
  /\ kept' = fs["target"] /\ mistaken' = (mistaken /\ fs["target"] = Foreign)
  /\ backup_path' = None

\* The target already has this content: the body is only hashed.
BeginDiscard(v, b) ==
  /\ Announce(v, b)
  /\ fs["target"] = v
  /\ target_existed' = TRUE /\ discard' = TRUE
  /\ pc' = "Open" /\ temporary_path' = None
  /\ UNCHANGED <<fs, status, faults>>

BeginWrite(v, b) ==
  /\ Announce(v, b)
  /\ fs["target"] # v
  /\ target_existed' = Exists("target") /\ discard' = FALSE
  /\ \E t \in Temps :
       /\ CreateFileFreshOk(t)
       /\ temporary_path' = t
  /\ pc' = "Open"
  /\ UNCHANGED <<status, faults>>

\* Stat or the probe of the target failed, or the free space, the parents or
\* every sibling name: nothing was created.
BeginRefused(v, b) ==
  /\ Announce(v, b)
  /\ target_existed' \in {target_existed, Exists("target")}
  /\ discard' \in {discard, FALSE}
  /\ temporary_path' = None
  /\ pc' = "AbortTemp" /\ status' = "IoError"
  /\ UNCHANGED <<fs, faults>>

\* Stat of a sibling failed: its name stays in temporary_path_.
SiblingUnknown(v, b) ==
  /\ Announce(v, b)
  /\ fs["target"] # v
  /\ target_existed' = Exists("target") /\ discard' = FALSE
  /\ temporary_path' \in Temps
  /\ pc' = "AbortTemp" /\ status' = "IoError" /\ faults' = TRUE
  /\ UNCHANGED fs

\* The sibling was free, but it cannot be created or opened.
CreateFailed(v, b) ==
  /\ Announce(v, b)
  /\ fs["target"] # v
  /\ target_existed' = Exists("target") /\ discard' = FALSE
  /\ \E t \in Temps :
       /\ ~Exists(t) /\ CreateFileFreshFails(t)
       /\ temporary_path' = t
  /\ pc' = "AbortTemp" /\ status' = "IoError" /\ faults' = TRUE

Begin(v, b) ==
  \/ BeginDiscard(v, b) \/ BeginWrite(v, b) \/ BeginRefused(v, b)
  \/ SiblingUnknown(v, b) \/ CreateFailed(v, b)

-----------------------------------------------------------------------------
(* Write and Finish. *)

\* Fail(s): Abort runs, then s is returned.
Fail(s) == pc' = "AbortTemp" /\ status' = s

Write ==
  /\ pc = "Open" /\ received < Size
  /\ received' = received + 1
  /\ UNCHANGED <<fs, pc, want, body, target_existed, discard, temporary_path,
                 backup_path, status, uploads, kept, mistaken, faults>>

WriteTooLong ==
  /\ pc = "Open" /\ received = Size
  /\ Fail("LengthMismatch")
  /\ UNCHANGED <<fs, temporary_path, backup_path, faults, txVars>>

WriteFails ==
  /\ pc = "Open" /\ received < Size /\ ~discard
  /\ Fail("IoError") /\ faults' = TRUE
  /\ UNCHANGED <<fs, temporary_path, backup_path, txVars>>

\* The client goes away: the router aborts the transaction.
ClientGone ==
  /\ pc = "Open"
  /\ Fail("Aborted")
  /\ UNCHANGED <<fs, temporary_path, backup_path, faults, txVars>>

\* A DELETE or a rename on another connection, between two reads of the body:
\* bmx_api_router.cpp does not ask for an active upload there.
OtherRequest(c) ==
  /\ pc = "Open"
  /\ (c = Missing) = Exists("target")
  /\ fs' = [fs EXCEPT !["target"] = c] /\ kept' = c
  /\ UNCHANGED <<pc, want, body, received, target_existed, discard, temporary_path,
                 backup_path, status, uploads, mistaken, faults>>

FinishShort ==
  /\ pc = "Open" /\ received # Size
  /\ Fail("LengthMismatch")
  /\ UNCHANGED <<fs, temporary_path, backup_path, faults, txVars>>

HashOk == body = want

FinishHash ==
  /\ pc = "Open" /\ received = Size /\ ~HashOk
  /\ Fail("HashMismatch")
  /\ UNCHANGED <<fs, temporary_path, backup_path, faults, txVars>>

FinishDiscard ==
  /\ pc = "Open" /\ received = Size /\ HashOk /\ discard
  /\ pc' = "Idle" /\ status' = "Ok"
  /\ UNCHANGED <<fs, temporary_path, backup_path, faults, txVars>>

FinishWrite ==
  /\ pc = "Open" /\ received = Size /\ HashOk /\ ~discard
  /\ pc' = "Sync"
  /\ UNCHANGED <<fs, temporary_path, backup_path, status, faults, txVars>>

\* Sync reads the file back; only then its content is certain.
Sync ==
  /\ pc = "Sync"
  /\ SyncOk(temporary_path, body)
  /\ pc' = "Install"
  /\ UNCHANGED <<temporary_path, backup_path, status, faults, txVars>>

\* Sync fails, or Close after it.
SyncFails ==
  /\ pc = "Sync"
  /\ UNCHANGED fs \/ SyncOk(temporary_path, body)
  /\ Fail("IoError") /\ faults' = TRUE
  /\ UNCHANGED <<temporary_path, backup_path, txVars>>

\* There was no target: the new file takes the free name.
InstallFresh ==
  /\ pc = "Install" /\ ~target_existed
  /\ RenameOk(temporary_path, "target")
  /\ temporary_path' = None
  /\ pc' = "SyncDir"
  /\ UNCHANGED <<backup_path, status, faults, txVars>>

InstallFreshFails ==
  /\ pc = "Install" /\ ~target_existed
  /\ RenameFails(temporary_path, "target")
  /\ Fail("InstallFailed") /\ faults' = TRUE
  /\ UNCHANGED <<temporary_path, backup_path, txVars>>

\* target_existed is stale: the target came or went while the body arrived.
TargetChanged ==
  /\ pc = "Install" /\ target_existed # Exists("target")
  /\ backup_path' \in IF target_existed THEN {b \in Backups : ~Exists(b)} ELSE {None}
  /\ Fail("InstallFailed")
  /\ UNCHANGED <<fs, temporary_path, faults, txVars>>

\* Mutant: the old target is removed rather than moved aside.
BackupTargetRemoves ==
  /\ pc = "Install" /\ target_existed
  /\ Removed("target")
  /\ pc' = "Replace"
  /\ UNCHANGED <<temporary_path, backup_path, status, faults, txVars>>

\* The old target moves to a free sibling ...
BackupTarget ==
  /\ pc = "Install" /\ target_existed
  /\ \E b \in Backups :
       /\ ~Exists(b) /\ RenameOk("target", b)
       /\ backup_path' = b
  /\ pc' = "Replace"
  /\ UNCHANGED <<temporary_path, status, faults, txVars>>

\* ... or that fails; or no sibling is known to be free, and when that is because
\* Stat of one failed, its name stays in backup_path_, whoever's file it is.
BackupTargetFails ==
  /\ pc = "Install" /\ target_existed
  /\ \/ \E b \in Backups :
          /\ ~Exists(b) /\ RenameFails("target", b)
          /\ backup_path' = b /\ UNCHANGED mistaken
     \/ /\ backup_path' \in Backups \cup {None} /\ UNCHANGED fs
        /\ mistaken' = (mistaken \/ \E b \in Backups : backup_path' = b /\ fs[b] = Foreign)
  /\ Fail("InstallFailed") /\ faults' = TRUE
  /\ UNCHANGED <<temporary_path, want, body, received, target_existed, discard, uploads,
                 kept>>

Replace ==
  /\ pc = "Replace"
  /\ RenameOk(temporary_path, "target")
  /\ temporary_path' = None
  /\ pc' = "SyncDir"
  /\ UNCHANGED <<backup_path, status, faults, txVars>>

ReplaceFails ==
  /\ pc = "Replace"
  /\ RenameFails(temporary_path, "target")
  /\ pc' = "Undo" /\ faults' = TRUE
  /\ UNCHANGED <<temporary_path, backup_path, status, txVars>>

\* The old target moves back; if that fails, Abort tries again.
Undo ==
  /\ pc = "Undo"
  /\ \/ RenameOk(backup_path, "target") /\ backup_path' = None
     \/ RenameFails(backup_path, "target") /\ UNCHANGED backup_path
  /\ Fail("InstallFailed")
  /\ UNCHANGED <<temporary_path, faults, txVars>>

SyncContainingDirectory ==
  /\ pc = "SyncDir"
  /\ pc' = "DropBackup"
  /\ UNCHANGED <<fs, temporary_path, backup_path, status, faults, txVars>>

SyncContainingDirectoryFails ==
  /\ pc = "SyncDir"
  /\ pc' = "Rollback" /\ faults' = TRUE
  /\ UNCHANGED <<fs, temporary_path, backup_path, status, txVars>>

\* The new target is withdrawn ...
Rollback ==
  /\ pc = "Rollback"
  /\ \/ /\ RemoveFileOk("target") /\ backup_path # None
        /\ pc' = "RollbackRename" /\ UNCHANGED status
     \/ /\ RemoveFileOk("target") /\ backup_path = None
        /\ Fail("IoError")
     \/ /\ RemoveFileFails("target")
        /\ Fail("IoError")
  /\ UNCHANGED <<temporary_path, backup_path, faults, txVars>>

\* ... and the old one comes back.
RollbackRename ==
  /\ pc = "RollbackRename"
  /\ \/ RenameOk(backup_path, "target") /\ backup_path' = None
     \/ RenameFails(backup_path, "target") /\ UNCHANGED backup_path
  /\ Fail("IoError")
  /\ UNCHANGED <<temporary_path, faults, txVars>>

\* Mutant: a backup that was made is forgotten on disk.
DropBackupForgets ==
  /\ pc = "DropBackup"
  /\ backup_path' = None
  /\ pc' = "Idle" /\ status' = "Ok"
  /\ UNCHANGED <<fs, temporary_path, faults, txVars>>

\* Committed: the backup goes, or stays behind if it cannot be removed.
DropBackup ==
  /\ pc = "DropBackup"
  /\ \/ backup_path = None /\ UNCHANGED <<fs, faults>>
     \/ backup_path # None /\ RemoveFileOk(backup_path) /\ UNCHANGED faults
     \/ backup_path # None /\ RemoveFileFails(backup_path) /\ faults' = TRUE
  /\ backup_path' = None
  /\ pc' = "Idle" /\ status' = "Ok"
  /\ UNCHANGED <<temporary_path, txVars>>

-----------------------------------------------------------------------------
(* Abort, in two steps, and the power loss. *)

AbortTemp ==
  /\ pc = "AbortTemp"
  /\ \/ temporary_path = None /\ UNCHANGED <<fs, faults>>
     \/ temporary_path # None /\ RemoveFileOk(temporary_path) /\ UNCHANGED faults
     \/ temporary_path # None /\ RemoveFileFails(temporary_path) /\ faults' = TRUE
  /\ temporary_path' = None
  /\ pc' = "AbortRestore"
  /\ UNCHANGED <<backup_path, status, txVars>>

\* The old target comes back if its name is free now.
AbortRestore ==
  /\ pc = "AbortRestore"
  /\ \/ (backup_path # None => Exists("target") \/ ~Exists(backup_path)) /\ UNCHANGED <<fs, faults>>
     \/ backup_path # None /\ RenameOk(backup_path, "target") /\ UNCHANGED faults
     \/ backup_path # None /\ RenameFails(backup_path, "target") /\ faults' = TRUE
  /\ backup_path' = None
  /\ pc' = "Idle"
  /\ UNCHANGED <<temporary_path, status, txVars>>

\* Power loss: the directory is all that remains.
PowerLoss ==
  /\ pc # "Idle"
  /\ pc' = "Idle" /\ status' = "None" /\ faults' = TRUE
  /\ temporary_path' = None /\ backup_path' = None
  /\ UNCHANGED <<fs, txVars>>

-----------------------------------------------------------------------------

Next ==
  \/ \E v \in Versions, b \in Versions \cup {Bad} : Begin(v, b)
  \/ Write \/ WriteTooLong \/ WriteFails \/ ClientGone
  \/ \E c \in {Missing} \cup Versions : OtherRequest(c)
  \/ FinishShort \/ FinishHash \/ FinishDiscard \/ FinishWrite
  \/ Sync \/ SyncFails \/ TargetChanged \/ InstallFresh \/ InstallFreshFails
  \/ BackupTarget \/ BackupTargetFails \/ Replace \/ ReplaceFails \/ Undo
  \/ SyncContainingDirectory \/ SyncContainingDirectoryFails
  \/ Rollback \/ RollbackRename \/ DropBackup
  \/ AbortTemp \/ AbortRestore \/ PowerLoss

Spec == Init /\ [][Next]_vars

-----------------------------------------------------------------------------
(* Properties. *)

TypeOK ==
  /\ FsTypeOK
  /\ pc \in Pcs
  /\ want \in {Missing} \cup Versions
  /\ body \in {Missing, Bad} \cup Versions
  /\ received \in 0..Size
  /\ target_existed \in BOOLEAN /\ discard \in BOOLEAN
  /\ temporary_path \in Temps \cup {None} /\ backup_path \in Backups \cup {None}
  /\ status \in {"None", "Ok", "IoError", "Aborted", "LengthMismatch", "HashMismatch",
                 "InstallFailed"}
  /\ uploads \in 0..MaxUploads
  /\ kept \in Contents \cup {Missing, Partial}
  /\ mistaken \in BOOLEAN
  /\ faults \in BOOLEAN

(***************************************************************************)
(* What the target held when the upload began is still in the directory,   *)
(* as the target or as a backup sibling, until the complete new content is *)
(* the target: no failing call of Finish or Abort, no request of another   *)
(* client and no power loss destroys the only copy.                        *)
(***************************************************************************)
OldNeverLost ==
  \/ kept = Missing
  \/ fs["target"] = want
  \/ \E p \in {"target"} \cup Backups : fs[p] = kept

(***************************************************************************)
(* Whoever reads the target finds a whole file that somebody meant to be   *)
(* there: never a body in transit or one that failed its hash, and never   *)
(* the file that happens to have a sibling's name, with one exception.     *)
(* When Stat of an occupied backup sibling has failed, Abort takes that    *)
(* file for the old target and renames it to the target's free name        *)
(* (mistaken), although its comment says that it restores the previous     *)
(* target.  The exception lasts until an upload finds the target in order  *)
(* again.                                                                  *)
(***************************************************************************)
TargetComplete ==
  \/ fs["target"] \in {Missing} \cup Versions
  \/ mistaken /\ fs["target"] = Foreign

(***************************************************************************)
(* A client that is told Ok sent exactly what it announced, and the target *)
(* has it, unless the upload found it in place and another request has     *)
(* changed the target since.                                               *)
(***************************************************************************)
OkMeansInstalled ==
  (pc = "Idle" /\ status = "Ok")
    => /\ body = want
       /\ fs["target"] = want \/ (discard /\ fs["target"] = kept)

\* An upload replaces the target in one piece or not at all, whatever fails, and
\* its answer says which; the one exception is that of TargetComplete.
UploadSafe == OldNeverLost /\ TargetComplete /\ OkMeansInstalled

(***************************************************************************)
(* Between uploads no temporary file and no backup of ours is left behind, *)
(* however the upload ended, as long as the file system did what it was    *)
(* asked.                                                                  *)
(***************************************************************************)
CleanWithoutFaults ==
  (pc = "Idle" /\ ~faults)
    => \A p \in Temps \cup Backups : fs[p] = IF p \in Occupied THEN Foreign ELSE Missing

-----------------------------------------------------------------------------
(* The inductive invariant behind them: what each phase of the transaction *)
(* knows about the directory.                                              *)

\* Up to the install the target is as the upload, or another request, left it.
BeforeInstall ==
  pc \in {"Open", "Sync", "Install"} => fs["target"] = kept /\ backup_path = None

\* A body that passed its hash, being written, whole, or already moved.
BodyVerified ==
  /\ pc # "Idle" => want \in Versions
  /\ pc \in {"Sync", "Install", "Replace", "Undo", "SyncDir", "Rollback", "DropBackup"}
       => body = want
  /\ pc \in {"Sync", "Install", "Replace"} => temporary_path \in Temps
  /\ pc = "Open" /\ ~discard => temporary_path \in Temps
  /\ pc \in {"Install", "Replace"} => fs[temporary_path] = want

\* While the target is being exchanged its old content is in backup_path.
BackupHolds ==
  /\ pc \in {"Replace", "Undo", "RollbackRename"}
       => backup_path \in Backups /\ fs[backup_path] = kept
  /\ pc \in {"SyncDir", "Rollback"}
       => IF backup_path = None THEN kept = Missing ELSE fs[backup_path] = kept
  /\ pc \in {"SyncDir", "Rollback", "DropBackup"} => fs["target"] = want
  /\ pc = "Replace" => fs["target"] = Missing

\* Abort never answers Ok.
AbortNotOk == pc \in {"AbortTemp", "AbortRestore"} => status # "Ok"

\* A backup sibling is a former target or a foreign file, and only after a failed
\* Stat is it a foreign file that the transaction names or has brought back.
BackupsWhole ==
  /\ \A b \in Backups : fs[b] \in {Missing, Foreign} \cup Versions
  /\ ~mistaken => /\ kept # Foreign
                  /\ \A b \in Backups : backup_path = b => fs[b] # Foreign

FileInv ==
  /\ TypeOK /\ OldNeverLost /\ OkMeansInstalled
  /\ BeforeInstall /\ BodyVerified /\ BackupHolds /\ AbortNotOk

-----------------------------------------------------------------------------
(***************************************************************************)
(* SelectSiblingPath: "Stat also protects against ... pre-existing         *)
(* directory entries": a file that was there under a sibling's name stays. *)
(***************************************************************************)
ForeignFilesKept == \A p \in Occupied : fs[p] = Foreign
=============================================================================
