------------------------ MODULE FileTransactionProofs -------------------------
(***************************************************************************)
(* The upload transaction for any number of sibling names, versions,       *)
(* chunks and uploads, with every call able to fail and a power loss       *)
(* between any two: the old file survives until the new one is complete,   *)
(* the target is never a partial file, and Ok means installed.             *)
(***************************************************************************)
EXTENDS FileTransaction, TLAPS

\* The paths and contents are distinct where the code keeps them distinct.
LEMMA NamesDistinct ==
  /\ "target" \in Paths /\ Temps \subseteq Paths /\ Backups \subseteq Paths
  /\ "target" \notin Temps /\ "target" \notin Backups /\ Temps \cap Backups = {}
  /\ "none" \notin Temps /\ "none" \notin Backups
  /\ Versions \subseteq Contents /\ "bad" \in Contents /\ "foreign" \in Contents
  /\ "missing" \notin Contents /\ "partial" \notin Contents
  /\ "bad" \notin Versions /\ "foreign" \notin Versions
  /\ "missing" \notin Versions /\ "partial" \notin Versions
  /\ Occupied \subseteq Temps \cup Backups
  /\ Size \in Nat /\ Size > 0 /\ MaxUploads \in Nat
BY FileTransactionAssumption, UpdateFileSystemAssumption
   DEF Missing, Partial, Foreign, Bad, None

\* The phases' knowledge holds at the start.
LEMMA FileInvInit == Init => FileInv
<1> SUFFICES ASSUME Init PROVE FileInv
  OBVIOUS
<1> USE NamesDistinct DEF Init, Missing, Partial, Foreign, Bad, None
<1>0. PICK c \in {Missing} \cup Versions :
         fs = [p \in Paths |-> IF p = "target" THEN c
                              ELSE IF p \in Occupied THEN Foreign ELSE Missing]
  OBVIOUS
<1>1. TypeOK
  <2>1. fs \in [Paths -> Contents \cup {Missing, Partial}] /\ kept \in Contents \cup {Missing, Partial}
    BY <1>0
  <2>2. target_existed \in BOOLEAN /\ discard \in BOOLEAN /\ faults \in BOOLEAN
        /\ mistaken \in BOOLEAN
    OBVIOUS
  <2> QED
    BY <2>1, <2>2 DEF TypeOK, FsTypeOK, Pcs
<1>2. OldNeverLost /\ OkMeansInstalled
  BY DEF OldNeverLost, OkMeansInstalled
<1>3. BeforeInstall /\ BodyVerified /\ BackupHolds /\ AbortNotOk
  BY DEF BeforeInstall, BodyVerified, BackupHolds, AbortNotOk
<1> QED
  BY <1>1, <1>2, <1>3 DEF FileInv

\* Every step, failing calls, other clients and power losses included, keeps it.
LEMMA FileInvNext == FileInv /\ [Next]_vars => FileInv'
<1> SUFFICES ASSUME FileInv, [Next]_vars
             PROVE  FileInv'
  OBVIOUS
<1> USE NamesDistinct DEF FileInv, Missing, Partial, Foreign, Bad, None
<1>1. ASSUME NEW v \in Versions, NEW b \in Versions \cup {Bad}, BeginDiscard(v, b)
    PROVE  FileInv'
  <2>1. TypeOK'
    BY <1>1 DEF BeginDiscard, Announce, TypeOK, FsTypeOK, Pcs, BodyVerified, BackupHolds
  <2>2. OldNeverLost' /\ OkMeansInstalled'
    BY <1>1 DEF BeginDiscard, Announce, OldNeverLost, OkMeansInstalled, TypeOK, FsTypeOK,
           BeforeInstall, BodyVerified, BackupHolds, AbortNotOk
  <2>3. BeforeInstall' /\ BodyVerified' /\ BackupHolds' /\ AbortNotOk'
    BY <1>1 DEF BeginDiscard, Announce, BeforeInstall, BodyVerified, BackupHolds,
           AbortNotOk, TypeOK, FsTypeOK
  <2> QED
    BY <2>1, <2>2, <2>3
<1>2. ASSUME NEW v \in Versions, NEW b \in Versions \cup {Bad}, BeginWrite(v, b)
    PROVE  FileInv'
  <2>0. target_existed' \in BOOLEAN /\ discard' \in BOOLEAN /\ faults' \in BOOLEAN
    BY <1>2, Zenon DEF BeginWrite, Exists, CreateFileFreshOk, Announce, TypeOK
  <2>1. TypeOK'
    BY <1>2, <2>0 DEF BeginWrite, Exists, CreateFileFreshOk, Announce, TypeOK, FsTypeOK, Pcs,
           BodyVerified, BackupHolds
  <2>2. OldNeverLost' /\ OkMeansInstalled'
    BY <1>2 DEF BeginWrite, Exists, CreateFileFreshOk, Announce, OldNeverLost,
           OkMeansInstalled, TypeOK, FsTypeOK, BeforeInstall, BodyVerified,
           BackupHolds, AbortNotOk
  <2>3. BeforeInstall' /\ BodyVerified' /\ BackupHolds' /\ AbortNotOk'
    BY <1>2 DEF BeginWrite, Exists, CreateFileFreshOk, Announce, BeforeInstall,
           BodyVerified, BackupHolds, AbortNotOk, TypeOK, FsTypeOK
  <2> QED
    BY <2>1, <2>2, <2>3
<1>3. ASSUME NEW v \in Versions, NEW b \in Versions \cup {Bad}, BeginRefused(v, b)
    PROVE  FileInv'
  <2>0. target_existed' \in BOOLEAN /\ discard' \in BOOLEAN /\ faults' \in BOOLEAN
    BY <1>3, Zenon DEF BeginRefused, Exists, Announce, TypeOK
  <2>1. TypeOK'
    BY <1>3, <2>0 DEF BeginRefused, Exists, Announce, TypeOK, FsTypeOK, Pcs, BodyVerified,
           BackupHolds
  <2>2. OldNeverLost' /\ OkMeansInstalled'
    BY <1>3 DEF BeginRefused, Exists, Announce, OldNeverLost, OkMeansInstalled, TypeOK,
           FsTypeOK, BeforeInstall, BodyVerified, BackupHolds, AbortNotOk
  <2>3. BeforeInstall' /\ BodyVerified' /\ BackupHolds' /\ AbortNotOk'
    BY <1>3 DEF BeginRefused, Exists, Announce, BeforeInstall, BodyVerified, BackupHolds,
           AbortNotOk, TypeOK, FsTypeOK
  <2> QED
    BY <2>1, <2>2, <2>3
<1>4. ASSUME NEW v \in Versions, NEW b \in Versions \cup {Bad}, SiblingUnknown(v, b)
    PROVE  FileInv'
  <2>0. target_existed' \in BOOLEAN /\ discard' \in BOOLEAN /\ faults' \in BOOLEAN
    BY <1>4, Zenon DEF SiblingUnknown, Exists, Announce, TypeOK
  <2>1. TypeOK'
    BY <1>4, <2>0 DEF SiblingUnknown, Exists, Announce, TypeOK, FsTypeOK, Pcs, BodyVerified,
           BackupHolds
  <2>2. OldNeverLost' /\ OkMeansInstalled'
    BY <1>4 DEF SiblingUnknown, Exists, Announce, OldNeverLost, OkMeansInstalled, TypeOK,
           FsTypeOK, BeforeInstall, BodyVerified, BackupHolds, AbortNotOk
  <2>3. BeforeInstall' /\ BodyVerified' /\ BackupHolds' /\ AbortNotOk'
    BY <1>4 DEF SiblingUnknown, Exists, Announce, BeforeInstall, BodyVerified,
           BackupHolds, AbortNotOk, TypeOK, FsTypeOK
  <2> QED
    BY <2>1, <2>2, <2>3
<1>5. ASSUME NEW v \in Versions, NEW b \in Versions \cup {Bad}, CreateFailed(v, b)
    PROVE  FileInv'
  <2>0. target_existed' \in BOOLEAN /\ discard' \in BOOLEAN /\ faults' \in BOOLEAN
    BY <1>5, Zenon DEF CreateFailed, Exists, CreateFileFreshFails, CreateFileFreshOk, Announce, TypeOK
  <2>1. TypeOK'
    BY <1>5, <2>0 DEF CreateFailed, Exists, CreateFileFreshFails, CreateFileFreshOk, Announce,
           TypeOK, FsTypeOK, Pcs, BodyVerified, BackupHolds
  <2>2. OldNeverLost' /\ OkMeansInstalled'
    BY <1>5 DEF CreateFailed, Exists, CreateFileFreshFails, CreateFileFreshOk, Announce,
           OldNeverLost, OkMeansInstalled, TypeOK, FsTypeOK, BeforeInstall,
           BodyVerified, BackupHolds, AbortNotOk
  <2>3. BeforeInstall' /\ BodyVerified' /\ BackupHolds' /\ AbortNotOk'
    BY <1>5 DEF CreateFailed, Exists, CreateFileFreshFails, CreateFileFreshOk, Announce,
           BeforeInstall, BodyVerified, BackupHolds, AbortNotOk, TypeOK, FsTypeOK
  <2> QED
    BY <2>1, <2>2, <2>3
<1>6. CASE Write
  <2>1. TypeOK'
    BY <1>6 DEF Write, TypeOK, FsTypeOK, Pcs, BodyVerified, BackupHolds
  <2>2. OldNeverLost' /\ OkMeansInstalled'
    BY <1>6 DEF Write, OldNeverLost, OkMeansInstalled, TypeOK, FsTypeOK, BeforeInstall,
           BodyVerified, BackupHolds, AbortNotOk
  <2>3. BeforeInstall' /\ BodyVerified' /\ BackupHolds' /\ AbortNotOk'
    BY <1>6 DEF Write, BeforeInstall, BodyVerified, BackupHolds, AbortNotOk, TypeOK,
           FsTypeOK
  <2> QED
    BY <2>1, <2>2, <2>3
<1>7. CASE WriteTooLong
  <2>1. TypeOK'
    BY <1>7 DEF WriteTooLong, Fail, txVars, TypeOK, FsTypeOK, Pcs, BodyVerified,
           BackupHolds
  <2>2. OldNeverLost' /\ OkMeansInstalled'
    BY <1>7 DEF WriteTooLong, Fail, txVars, OldNeverLost, OkMeansInstalled, TypeOK,
           FsTypeOK, BeforeInstall, BodyVerified, BackupHolds, AbortNotOk
  <2>3. BeforeInstall' /\ BodyVerified' /\ BackupHolds' /\ AbortNotOk'
    BY <1>7 DEF WriteTooLong, Fail, txVars, BeforeInstall, BodyVerified, BackupHolds,
           AbortNotOk, TypeOK, FsTypeOK
  <2> QED
    BY <2>1, <2>2, <2>3
<1>8. CASE WriteFails
  <2>1. TypeOK'
    BY <1>8 DEF WriteFails, Fail, txVars, TypeOK, FsTypeOK, Pcs, BodyVerified,
           BackupHolds
  <2>2. OldNeverLost' /\ OkMeansInstalled'
    BY <1>8 DEF WriteFails, Fail, txVars, OldNeverLost, OkMeansInstalled, TypeOK,
           FsTypeOK, BeforeInstall, BodyVerified, BackupHolds, AbortNotOk
  <2>3. BeforeInstall' /\ BodyVerified' /\ BackupHolds' /\ AbortNotOk'
    BY <1>8 DEF WriteFails, Fail, txVars, BeforeInstall, BodyVerified, BackupHolds,
           AbortNotOk, TypeOK, FsTypeOK
  <2> QED
    BY <2>1, <2>2, <2>3
<1>9. CASE ClientGone
  <2>1. TypeOK'
    BY <1>9 DEF ClientGone, Fail, txVars, TypeOK, FsTypeOK, Pcs, BodyVerified,
           BackupHolds
  <2>2. OldNeverLost' /\ OkMeansInstalled'
    BY <1>9 DEF ClientGone, Fail, txVars, OldNeverLost, OkMeansInstalled, TypeOK,
           FsTypeOK, BeforeInstall, BodyVerified, BackupHolds, AbortNotOk
  <2>3. BeforeInstall' /\ BodyVerified' /\ BackupHolds' /\ AbortNotOk'
    BY <1>9 DEF ClientGone, Fail, txVars, BeforeInstall, BodyVerified, BackupHolds,
           AbortNotOk, TypeOK, FsTypeOK
  <2> QED
    BY <2>1, <2>2, <2>3
<1>10. ASSUME NEW c \in {Missing} \cup Versions, OtherRequest(c)
    PROVE  FileInv'
  <2>1. TypeOK'
    BY <1>10 DEF OtherRequest, Exists, TypeOK, FsTypeOK, Pcs, BodyVerified, BackupHolds
  <2>2. OldNeverLost' /\ OkMeansInstalled'
    BY <1>10 DEF OtherRequest, Exists, OldNeverLost, OkMeansInstalled, TypeOK, FsTypeOK,
           BeforeInstall, BodyVerified, BackupHolds, AbortNotOk
  <2>3. BeforeInstall' /\ BodyVerified' /\ BackupHolds' /\ AbortNotOk'
    BY <1>10 DEF OtherRequest, Exists, BeforeInstall, BodyVerified, BackupHolds,
           AbortNotOk, TypeOK, FsTypeOK
  <2> QED
    BY <2>1, <2>2, <2>3
<1>11. CASE FinishShort
  <2>1. TypeOK'
    BY <1>11 DEF FinishShort, Fail, txVars, TypeOK, FsTypeOK, Pcs, BodyVerified,
           BackupHolds
  <2>2. OldNeverLost' /\ OkMeansInstalled'
    BY <1>11 DEF FinishShort, Fail, txVars, OldNeverLost, OkMeansInstalled, TypeOK,
           FsTypeOK, BeforeInstall, BodyVerified, BackupHolds, AbortNotOk
  <2>3. BeforeInstall' /\ BodyVerified' /\ BackupHolds' /\ AbortNotOk'
    BY <1>11 DEF FinishShort, Fail, txVars, BeforeInstall, BodyVerified, BackupHolds,
           AbortNotOk, TypeOK, FsTypeOK
  <2> QED
    BY <2>1, <2>2, <2>3
<1>12. CASE FinishHash
  <2>1. TypeOK'
    BY <1>12 DEF FinishHash, Fail, HashOk, txVars, TypeOK, FsTypeOK, Pcs, BodyVerified,
           BackupHolds
  <2>2. OldNeverLost' /\ OkMeansInstalled'
    BY <1>12 DEF FinishHash, Fail, HashOk, txVars, OldNeverLost, OkMeansInstalled, TypeOK,
           FsTypeOK, BeforeInstall, BodyVerified, BackupHolds, AbortNotOk
  <2>3. BeforeInstall' /\ BodyVerified' /\ BackupHolds' /\ AbortNotOk'
    BY <1>12 DEF FinishHash, Fail, HashOk, txVars, BeforeInstall, BodyVerified,
           BackupHolds, AbortNotOk, TypeOK, FsTypeOK
  <2> QED
    BY <2>1, <2>2, <2>3
<1>13. CASE FinishDiscard
  <2>1. TypeOK'
    BY <1>13 DEF FinishDiscard, HashOk, txVars, TypeOK, FsTypeOK, Pcs, BodyVerified,
           BackupHolds
  <2>2. OldNeverLost' /\ OkMeansInstalled'
    BY <1>13 DEF FinishDiscard, HashOk, txVars, OldNeverLost, OkMeansInstalled, TypeOK,
           FsTypeOK, BeforeInstall, BodyVerified, BackupHolds, AbortNotOk
  <2>3. BeforeInstall' /\ BodyVerified' /\ BackupHolds' /\ AbortNotOk'
    BY <1>13 DEF FinishDiscard, HashOk, txVars, BeforeInstall, BodyVerified, BackupHolds,
           AbortNotOk, TypeOK, FsTypeOK
  <2> QED
    BY <2>1, <2>2, <2>3
<1>14. CASE FinishWrite
  <2>1. TypeOK'
    BY <1>14 DEF FinishWrite, HashOk, txVars, TypeOK, FsTypeOK, Pcs, BodyVerified,
           BackupHolds
  <2>2. OldNeverLost' /\ OkMeansInstalled'
    BY <1>14 DEF FinishWrite, HashOk, txVars, OldNeverLost, OkMeansInstalled, TypeOK,
           FsTypeOK, BeforeInstall, BodyVerified, BackupHolds, AbortNotOk
  <2>3. BeforeInstall' /\ BodyVerified' /\ BackupHolds' /\ AbortNotOk'
    BY <1>14 DEF FinishWrite, HashOk, txVars, BeforeInstall, BodyVerified, BackupHolds,
           AbortNotOk, TypeOK, FsTypeOK
  <2> QED
    BY <2>1, <2>2, <2>3
<1>15. CASE Sync
  <2>1. TypeOK'
    BY <1>15 DEF Sync, SyncOk, txVars, TypeOK, FsTypeOK, Pcs, BodyVerified, BackupHolds
  <2>2. OldNeverLost' /\ OkMeansInstalled'
    BY <1>15 DEF Sync, SyncOk, txVars, OldNeverLost, OkMeansInstalled, TypeOK, FsTypeOK,
           BeforeInstall, BodyVerified, BackupHolds, AbortNotOk
  <2>3. BeforeInstall' /\ BodyVerified' /\ BackupHolds' /\ AbortNotOk'
    BY <1>15 DEF Sync, SyncOk, txVars, BeforeInstall, BodyVerified, BackupHolds,
           AbortNotOk, TypeOK, FsTypeOK
  <2> QED
    BY <2>1, <2>2, <2>3
<1>16. CASE SyncFails
  <2>1. TypeOK'
    BY <1>16 DEF SyncFails, SyncOk, Fail, txVars, TypeOK, FsTypeOK, Pcs, BodyVerified,
           BackupHolds
  <2>2. OldNeverLost' /\ OkMeansInstalled'
    BY <1>16 DEF SyncFails, SyncOk, Fail, txVars, OldNeverLost, OkMeansInstalled, TypeOK,
           FsTypeOK, BeforeInstall, BodyVerified, BackupHolds, AbortNotOk
  <2>3. BeforeInstall' /\ BodyVerified' /\ BackupHolds' /\ AbortNotOk'
    BY <1>16 DEF SyncFails, SyncOk, Fail, txVars, BeforeInstall, BodyVerified,
           BackupHolds, AbortNotOk, TypeOK, FsTypeOK
  <2> QED
    BY <2>1, <2>2, <2>3
<1>17. CASE TargetChanged
  <2>1. TypeOK'
    BY <1>17 DEF TargetChanged, Exists, Fail, txVars, TypeOK, FsTypeOK, Pcs, BodyVerified,
           BackupHolds
  <2>2. OldNeverLost' /\ OkMeansInstalled'
    BY <1>17 DEF TargetChanged, Exists, Fail, txVars, OldNeverLost, OkMeansInstalled,
           TypeOK, FsTypeOK, BeforeInstall, BodyVerified, BackupHolds, AbortNotOk
  <2>3. BeforeInstall' /\ BodyVerified' /\ BackupHolds' /\ AbortNotOk'
    BY <1>17 DEF TargetChanged, Exists, Fail, txVars, BeforeInstall, BodyVerified,
           BackupHolds, AbortNotOk, TypeOK, FsTypeOK
  <2> QED
    BY <2>1, <2>2, <2>3
<1>18. CASE InstallFresh
  <2>1. TypeOK'
    BY <1>18 DEF InstallFresh, RenameOk, Moved, Exists, txVars, TypeOK, FsTypeOK, Pcs,
           BodyVerified, BackupHolds
  <2>2. OldNeverLost' /\ OkMeansInstalled'
    BY <1>18 DEF InstallFresh, RenameOk, Moved, Exists, txVars, OldNeverLost,
           OkMeansInstalled, TypeOK, FsTypeOK, BeforeInstall, BodyVerified,
           BackupHolds, AbortNotOk
  <2>3. BeforeInstall' /\ BodyVerified' /\ BackupHolds' /\ AbortNotOk'
    BY <1>18 DEF InstallFresh, RenameOk, Moved, Exists, txVars, BeforeInstall,
           BodyVerified, BackupHolds, AbortNotOk, TypeOK, FsTypeOK
  <2> QED
    BY <2>1, <2>2, <2>3
<1>19. CASE InstallFreshFails
  <2>1. TypeOK'
    BY <1>19 DEF InstallFreshFails, RenameFails, Moved, Exists, Fail, txVars, TypeOK,
           FsTypeOK, Pcs, BodyVerified, BackupHolds
  <2>2. OldNeverLost' /\ OkMeansInstalled'
    BY <1>19 DEF InstallFreshFails, RenameFails, Moved, Exists, Fail, txVars,
           OldNeverLost, OkMeansInstalled, TypeOK, FsTypeOK, BeforeInstall,
           BodyVerified, BackupHolds, AbortNotOk
  <2>3. BeforeInstall' /\ BodyVerified' /\ BackupHolds' /\ AbortNotOk'
    BY <1>19 DEF InstallFreshFails, RenameFails, Moved, Exists, Fail, txVars,
           BeforeInstall, BodyVerified, BackupHolds, AbortNotOk, TypeOK, FsTypeOK
  <2> QED
    BY <2>1, <2>2, <2>3
<1>20. CASE BackupTarget
  <2>1. TypeOK'
    BY <1>20 DEF BackupTarget, Exists, RenameOk, Moved, txVars, TypeOK, FsTypeOK, Pcs,
           BodyVerified, BackupHolds
  <2>2. OldNeverLost' /\ OkMeansInstalled'
    BY <1>20 DEF BackupTarget, Exists, RenameOk, Moved, txVars, OldNeverLost,
           OkMeansInstalled, TypeOK, FsTypeOK, BeforeInstall, BodyVerified,
           BackupHolds, AbortNotOk
  <2>3. BeforeInstall' /\ BodyVerified' /\ BackupHolds' /\ AbortNotOk'
    BY <1>20 DEF BackupTarget, Exists, RenameOk, Moved, txVars, BeforeInstall,
           BodyVerified, BackupHolds, AbortNotOk, TypeOK, FsTypeOK
  <2> QED
    BY <2>1, <2>2, <2>3
<1>21. CASE BackupTargetFails
  <2>1. TypeOK'
    BY <1>21 DEF BackupTargetFails, Exists, RenameFails, Moved, Fail, txVars, TypeOK,
           FsTypeOK, Pcs, BodyVerified, BackupHolds
  <2>2. OldNeverLost' /\ OkMeansInstalled'
    BY <1>21 DEF BackupTargetFails, Exists, RenameFails, Moved, Fail, txVars,
           OldNeverLost, OkMeansInstalled, TypeOK, FsTypeOK, BeforeInstall,
           BodyVerified, BackupHolds, AbortNotOk
  <2>3. BeforeInstall' /\ BodyVerified' /\ BackupHolds' /\ AbortNotOk'
    BY <1>21 DEF BackupTargetFails, Exists, RenameFails, Moved, Fail, txVars,
           BeforeInstall, BodyVerified, BackupHolds, AbortNotOk, TypeOK, FsTypeOK
  <2> QED
    BY <2>1, <2>2, <2>3
<1>22. CASE Replace
  <2>1. TypeOK'
    BY <1>22 DEF Replace, RenameOk, Moved, Exists, txVars, TypeOK, FsTypeOK, Pcs,
           BodyVerified, BackupHolds
  <2>2. OldNeverLost' /\ OkMeansInstalled'
    BY <1>22 DEF Replace, RenameOk, Moved, Exists, txVars, OldNeverLost, OkMeansInstalled,
           TypeOK, FsTypeOK, BeforeInstall, BodyVerified, BackupHolds, AbortNotOk
  <2>3. BeforeInstall' /\ BodyVerified' /\ BackupHolds' /\ AbortNotOk'
    BY <1>22 DEF Replace, RenameOk, Moved, Exists, txVars, BeforeInstall, BodyVerified,
           BackupHolds, AbortNotOk, TypeOK, FsTypeOK
  <2> QED
    BY <2>1, <2>2, <2>3
<1>23. CASE ReplaceFails
  <2>1. TypeOK'
    BY <1>23 DEF ReplaceFails, RenameFails, Moved, Exists, txVars, TypeOK, FsTypeOK, Pcs,
           BodyVerified, BackupHolds
  <2>2. OldNeverLost' /\ OkMeansInstalled'
    BY <1>23 DEF ReplaceFails, RenameFails, Moved, Exists, txVars, OldNeverLost,
           OkMeansInstalled, TypeOK, FsTypeOK, BeforeInstall, BodyVerified,
           BackupHolds, AbortNotOk
  <2>3. BeforeInstall' /\ BodyVerified' /\ BackupHolds' /\ AbortNotOk'
    BY <1>23 DEF ReplaceFails, RenameFails, Moved, Exists, txVars, BeforeInstall,
           BodyVerified, BackupHolds, AbortNotOk, TypeOK, FsTypeOK
  <2> QED
    BY <2>1, <2>2, <2>3
<1>24. CASE Undo
  <2>1. TypeOK'
    BY <1>24 DEF Undo, RenameOk, Moved, Exists, RenameFails, Fail, txVars, TypeOK,
           FsTypeOK, Pcs, BodyVerified, BackupHolds
  <2>2. OldNeverLost' /\ OkMeansInstalled'
    BY <1>24 DEF Undo, RenameOk, Moved, Exists, RenameFails, Fail, txVars, OldNeverLost,
           OkMeansInstalled, TypeOK, FsTypeOK, BeforeInstall, BodyVerified,
           BackupHolds, AbortNotOk
  <2>3. BeforeInstall' /\ BodyVerified' /\ BackupHolds' /\ AbortNotOk'
    BY <1>24 DEF Undo, RenameOk, Moved, Exists, RenameFails, Fail, txVars, BeforeInstall,
           BodyVerified, BackupHolds, AbortNotOk, TypeOK, FsTypeOK
  <2> QED
    BY <2>1, <2>2, <2>3
<1>25. CASE SyncContainingDirectory
  <2>1. TypeOK'
    BY <1>25 DEF SyncContainingDirectory, txVars, TypeOK, FsTypeOK, Pcs, BodyVerified,
           BackupHolds
  <2>2. OldNeverLost' /\ OkMeansInstalled'
    BY <1>25 DEF SyncContainingDirectory, txVars, OldNeverLost, OkMeansInstalled, TypeOK,
           FsTypeOK, BeforeInstall, BodyVerified, BackupHolds, AbortNotOk
  <2>3. BeforeInstall' /\ BodyVerified' /\ BackupHolds' /\ AbortNotOk'
    BY <1>25 DEF SyncContainingDirectory, txVars, BeforeInstall, BodyVerified,
           BackupHolds, AbortNotOk, TypeOK, FsTypeOK
  <2> QED
    BY <2>1, <2>2, <2>3
<1>26. CASE SyncContainingDirectoryFails
  <2>1. TypeOK'
    BY <1>26 DEF SyncContainingDirectoryFails, txVars, TypeOK, FsTypeOK, Pcs,
           BodyVerified, BackupHolds
  <2>2. OldNeverLost' /\ OkMeansInstalled'
    BY <1>26 DEF SyncContainingDirectoryFails, txVars, OldNeverLost, OkMeansInstalled,
           TypeOK, FsTypeOK, BeforeInstall, BodyVerified, BackupHolds, AbortNotOk
  <2>3. BeforeInstall' /\ BodyVerified' /\ BackupHolds' /\ AbortNotOk'
    BY <1>26 DEF SyncContainingDirectoryFails, txVars, BeforeInstall, BodyVerified,
           BackupHolds, AbortNotOk, TypeOK, FsTypeOK
  <2> QED
    BY <2>1, <2>2, <2>3
<1>27. CASE Rollback
  <2>1. TypeOK'
    BY <1>27 DEF Rollback, RemoveFileOk, Removed, RemoveFileFails, Exists, Fail, txVars,
           TypeOK, FsTypeOK, Pcs, BodyVerified, BackupHolds
  <2>2. OldNeverLost' /\ OkMeansInstalled'
    BY <1>27 DEF Rollback, RemoveFileOk, Removed, RemoveFileFails, Exists, Fail, txVars,
           OldNeverLost, OkMeansInstalled, TypeOK, FsTypeOK, BeforeInstall,
           BodyVerified, BackupHolds, AbortNotOk
  <2>3. BeforeInstall' /\ BodyVerified' /\ BackupHolds' /\ AbortNotOk'
    BY <1>27 DEF Rollback, RemoveFileOk, Removed, RemoveFileFails, Exists, Fail, txVars,
           BeforeInstall, BodyVerified, BackupHolds, AbortNotOk, TypeOK, FsTypeOK
  <2> QED
    BY <2>1, <2>2, <2>3
<1>28. CASE RollbackRename
  <2>1. TypeOK'
    BY <1>28 DEF RollbackRename, RenameOk, Moved, Exists, RenameFails, Fail, txVars,
           TypeOK, FsTypeOK, Pcs, BodyVerified, BackupHolds
  <2>2. OldNeverLost' /\ OkMeansInstalled'
    BY <1>28 DEF RollbackRename, RenameOk, Moved, Exists, RenameFails, Fail, txVars,
           OldNeverLost, OkMeansInstalled, TypeOK, FsTypeOK, BeforeInstall,
           BodyVerified, BackupHolds, AbortNotOk
  <2>3. BeforeInstall' /\ BodyVerified' /\ BackupHolds' /\ AbortNotOk'
    BY <1>28 DEF RollbackRename, RenameOk, Moved, Exists, RenameFails, Fail, txVars,
           BeforeInstall, BodyVerified, BackupHolds, AbortNotOk, TypeOK, FsTypeOK
  <2> QED
    BY <2>1, <2>2, <2>3
<1>29. CASE DropBackup
  <2>1. TypeOK'
    BY <1>29 DEF DropBackup, RemoveFileOk, Removed, RemoveFileFails, Exists, txVars,
           TypeOK, FsTypeOK, Pcs, BodyVerified, BackupHolds
  <2>2. OldNeverLost' /\ OkMeansInstalled'
    BY <1>29 DEF DropBackup, RemoveFileOk, Removed, RemoveFileFails, Exists, txVars,
           OldNeverLost, OkMeansInstalled, TypeOK, FsTypeOK, BeforeInstall,
           BodyVerified, BackupHolds, AbortNotOk
  <2>3. BeforeInstall' /\ BodyVerified' /\ BackupHolds' /\ AbortNotOk'
    BY <1>29 DEF DropBackup, RemoveFileOk, Removed, RemoveFileFails, Exists, txVars,
           BeforeInstall, BodyVerified, BackupHolds, AbortNotOk, TypeOK, FsTypeOK
  <2> QED
    BY <2>1, <2>2, <2>3
<1>30. CASE AbortTemp
  <2>0. faults' \in BOOLEAN
    BY <1>30, Zenon DEF AbortTemp, RemoveFileOk, Removed, RemoveFileFails, Exists, txVars, TypeOK
  <2>1. TypeOK'
    BY <1>30, <2>0 DEF AbortTemp, RemoveFileOk, Removed, RemoveFileFails, Exists, txVars,
           TypeOK, FsTypeOK, Pcs, BodyVerified, BackupHolds
  <2>2. OldNeverLost' /\ OkMeansInstalled'
    BY <1>30 DEF AbortTemp, RemoveFileOk, Removed, RemoveFileFails, Exists, txVars,
           OldNeverLost, OkMeansInstalled, TypeOK, FsTypeOK, BeforeInstall,
           BodyVerified, BackupHolds, AbortNotOk
  <2>3. BeforeInstall' /\ BodyVerified' /\ BackupHolds' /\ AbortNotOk'
    BY <1>30 DEF AbortTemp, RemoveFileOk, Removed, RemoveFileFails, Exists, txVars,
           BeforeInstall, BodyVerified, BackupHolds, AbortNotOk, TypeOK, FsTypeOK
  <2> QED
    BY <2>1, <2>2, <2>3
<1>31. CASE AbortRestore
  <2>0. faults' \in BOOLEAN
    BY <1>31, Zenon DEF AbortRestore, Exists, RenameOk, Moved, RenameFails, txVars, TypeOK
  <2>1. TypeOK'
    BY <1>31, <2>0 DEF AbortRestore, Exists, RenameOk, Moved, RenameFails, txVars, TypeOK,
           FsTypeOK, Pcs, BodyVerified, BackupHolds
  <2>2. OldNeverLost' /\ OkMeansInstalled'
    BY <1>31 DEF AbortRestore, Exists, RenameOk, Moved, RenameFails, txVars, OldNeverLost,
           OkMeansInstalled, TypeOK, FsTypeOK, BeforeInstall, BodyVerified,
           BackupHolds, AbortNotOk
  <2>3. BeforeInstall' /\ BodyVerified' /\ BackupHolds' /\ AbortNotOk'
    BY <1>31 DEF AbortRestore, Exists, RenameOk, Moved, RenameFails, txVars,
           BeforeInstall, BodyVerified, BackupHolds, AbortNotOk, TypeOK, FsTypeOK
  <2> QED
    BY <2>1, <2>2, <2>3
<1>32. CASE PowerLoss
  <2>1. TypeOK'
    BY <1>32 DEF PowerLoss, txVars, TypeOK, FsTypeOK, Pcs, BodyVerified, BackupHolds
  <2>2. OldNeverLost' /\ OkMeansInstalled'
    BY <1>32 DEF PowerLoss, txVars, OldNeverLost, OkMeansInstalled, TypeOK, FsTypeOK,
           BeforeInstall, BodyVerified, BackupHolds, AbortNotOk
  <2>3. BeforeInstall' /\ BodyVerified' /\ BackupHolds' /\ AbortNotOk'
    BY <1>32 DEF PowerLoss, txVars, BeforeInstall, BodyVerified, BackupHolds, AbortNotOk,
           TypeOK, FsTypeOK
  <2> QED
    BY <2>1, <2>2, <2>3
<1>33. CASE UNCHANGED vars
  BY <1>33 DEF vars, txVars, TypeOK, FsTypeOK, OldNeverLost, OkMeansInstalled, BeforeInstall,
           BodyVerified, BackupHolds, AbortNotOk
<1> QED
  BY <1>1, <1>2, <1>3, <1>4, <1>5, <1>6, <1>7, <1>8, <1>9, <1>10, <1>11, <1>12,
     <1>13, <1>14, <1>15, <1>16, <1>17, <1>18, <1>19, <1>20, <1>21, <1>22, <1>23,
     <1>24, <1>25, <1>26, <1>27, <1>28, <1>29, <1>30, <1>31, <1>32, <1>33 DEF Next, Begin

\* FileInv is an invariant of the transaction.
LEMMA FileInvariant == Spec => []FileInv
BY FileInvInit, FileInvNext, PTL DEF Spec

(***************************************************************************)
(* The members of DeveloperFileTransaction and the directory keep their    *)
(* types; received_ never exceeds the announced length.                    *)
(***************************************************************************)
THEOREM FileTypeCorrect == Spec => []TypeOK
<1>1. FileInv => TypeOK
  BY DEF FileInv
<1> QED
  BY <1>1, FileInvariant, PTL

(***************************************************************************)
(* No failing call, other client or power loss during Finish or Abort      *)
(* destroys the only copy of the old target before the new one is whole.   *)
(***************************************************************************)
THEOREM OldFileSurvives == Spec => []OldNeverLost
<1>1. FileInv => OldNeverLost
  BY DEF FileInv
<1> QED
  BY <1>1, FileInvariant, PTL

(***************************************************************************)
(* Ok is answered only for a body that matches its hash and is the target, *)
(* or was when the upload began and another request changed it since.      *)
(***************************************************************************)
THEOREM OkIsInstalled == Spec => []OkMeansInstalled
<1>1. FileInv => OkMeansInstalled
  BY DEF FileInv
<1> QED
  BY <1>1, FileInvariant, PTL

\* What the transaction names as its backup was the target, unless Stat of a
\* foreign file failed: only then can Abort bring one into the target's place.
LEMMA WholeNext ==
  ASSUME FileInv, TargetComplete, BackupsWhole, [Next]_vars
  PROVE  TargetComplete' /\ BackupsWhole'
<1> USE NamesDistinct DEF FileInv, Missing, Partial, Foreign, Bad, None
<1>1. ASSUME NEW v \in Versions, NEW b \in Versions \cup {Bad}, BeginDiscard(v, b)
    PROVE  TargetComplete' /\ BackupsWhole'
  <2>1. mistaken' <=> mistaken /\ fs["target"] = Foreign
    BY <1>1, Zenon DEF BeginDiscard, Announce
  <2> QED
    BY <1>1, <2>1 DEF BeginDiscard, Announce, TargetComplete, BackupsWhole, TypeOK, FsTypeOK,
           BodyVerified, BackupHolds
<1>2. ASSUME NEW v \in Versions, NEW b \in Versions \cup {Bad}, BeginWrite(v, b)
    PROVE  TargetComplete' /\ BackupsWhole'
  <2>1. mistaken' <=> mistaken /\ fs["target"] = Foreign
    BY <1>2, Zenon DEF BeginWrite, Announce
  <2> QED
    BY <1>2, <2>1 DEF BeginWrite, Exists, CreateFileFreshOk, Announce, TargetComplete,
           BackupsWhole, TypeOK, FsTypeOK, BodyVerified, BackupHolds
<1>3. ASSUME NEW v \in Versions, NEW b \in Versions \cup {Bad}, BeginRefused(v, b)
    PROVE  TargetComplete' /\ BackupsWhole'
  <2>1. mistaken' <=> mistaken /\ fs["target"] = Foreign
    BY <1>3, Zenon DEF BeginRefused, Announce
  <2> QED
    BY <1>3, <2>1 DEF BeginRefused, Exists, Announce, TargetComplete, BackupsWhole, TypeOK,
           FsTypeOK, BodyVerified, BackupHolds
<1>4. ASSUME NEW v \in Versions, NEW b \in Versions \cup {Bad}, SiblingUnknown(v, b)
    PROVE  TargetComplete' /\ BackupsWhole'
  <2>1. mistaken' <=> mistaken /\ fs["target"] = Foreign
    BY <1>4, Zenon DEF SiblingUnknown, Announce
  <2> QED
    BY <1>4, <2>1 DEF SiblingUnknown, Exists, Announce, TargetComplete, BackupsWhole, TypeOK,
           FsTypeOK, BodyVerified, BackupHolds
<1>5. ASSUME NEW v \in Versions, NEW b \in Versions \cup {Bad}, CreateFailed(v, b)
    PROVE  TargetComplete' /\ BackupsWhole'
  <2>1. mistaken' <=> mistaken /\ fs["target"] = Foreign
    BY <1>5, Zenon DEF CreateFailed, Announce
  <2> QED
    BY <1>5, <2>1 DEF CreateFailed, Exists, CreateFileFreshFails, CreateFileFreshOk, Announce,
           TargetComplete, BackupsWhole, TypeOK, FsTypeOK, BodyVerified, BackupHolds
<1>6. CASE Write
  BY <1>6 DEF Write, TargetComplete, BackupsWhole, TypeOK, FsTypeOK, BodyVerified,
         BackupHolds
<1>7. CASE WriteTooLong
  BY <1>7 DEF WriteTooLong, Fail, txVars, TargetComplete, BackupsWhole, TypeOK, FsTypeOK,
         BodyVerified, BackupHolds
<1>8. CASE WriteFails
  BY <1>8 DEF WriteFails, Fail, txVars, TargetComplete, BackupsWhole, TypeOK, FsTypeOK,
         BodyVerified, BackupHolds
<1>9. CASE ClientGone
  BY <1>9 DEF ClientGone, Fail, txVars, TargetComplete, BackupsWhole, TypeOK, FsTypeOK,
         BodyVerified, BackupHolds
<1>10. ASSUME NEW c \in {Missing} \cup Versions, OtherRequest(c)
    PROVE  TargetComplete' /\ BackupsWhole'
  BY <1>10 DEF OtherRequest, Exists, TargetComplete, BackupsWhole, TypeOK, FsTypeOK,
         BodyVerified, BackupHolds
<1>11. CASE FinishShort
  BY <1>11 DEF FinishShort, Fail, txVars, TargetComplete, BackupsWhole, TypeOK, FsTypeOK,
         BodyVerified, BackupHolds
<1>12. CASE FinishHash
  BY <1>12 DEF FinishHash, Fail, HashOk, txVars, TargetComplete, BackupsWhole, TypeOK,
         FsTypeOK, BodyVerified, BackupHolds
<1>13. CASE FinishDiscard
  BY <1>13 DEF FinishDiscard, HashOk, txVars, TargetComplete, BackupsWhole, TypeOK,
         FsTypeOK, BodyVerified, BackupHolds
<1>14. CASE FinishWrite
  BY <1>14 DEF FinishWrite, HashOk, txVars, TargetComplete, BackupsWhole, TypeOK,
         FsTypeOK, BodyVerified, BackupHolds
<1>15. CASE Sync
  BY <1>15 DEF Sync, SyncOk, txVars, TargetComplete, BackupsWhole, TypeOK, FsTypeOK,
         BodyVerified, BackupHolds
<1>16. CASE SyncFails
  BY <1>16 DEF SyncFails, SyncOk, Fail, txVars, TargetComplete, BackupsWhole, TypeOK,
         FsTypeOK, BodyVerified, BackupHolds
<1>17. CASE TargetChanged
  BY <1>17 DEF TargetChanged, Exists, Fail, txVars, TargetComplete, BackupsWhole, TypeOK,
         FsTypeOK, BodyVerified, BackupHolds
<1>18. CASE InstallFresh
  BY <1>18 DEF InstallFresh, RenameOk, Moved, Exists, txVars, TargetComplete,
         BackupsWhole, TypeOK, FsTypeOK, BodyVerified, BackupHolds
<1>19. CASE InstallFreshFails
  BY <1>19 DEF InstallFreshFails, RenameFails, Moved, Exists, Fail, txVars,
         TargetComplete, BackupsWhole, TypeOK, FsTypeOK, BodyVerified, BackupHolds
<1>20. CASE BackupTarget
  BY <1>20 DEF BackupTarget, Exists, RenameOk, Moved, txVars, TargetComplete,
         BackupsWhole, TypeOK, FsTypeOK, BodyVerified, BackupHolds
<1>21. CASE BackupTargetFails
  <2>1. /\ kept' = kept
        /\ \/ \E b \in Backups :
                /\ ~Exists(b) /\ RenameFails("target", b)
                /\ backup_path' = b /\ mistaken' = mistaken
           \/ /\ fs' = fs
              /\ mistaken' <=> mistaken \/ \E b \in Backups : backup_path' = b /\ fs[b] = Foreign
    BY <1>21, Zenon DEF BackupTargetFails
  <2>2. (\A b \in Backups : fs'[b] \in {Missing, Foreign} \cup Versions) /\ TargetComplete'
    BY <2>1 DEF Exists, RenameFails, Moved, TargetComplete, BackupsWhole, TypeOK, FsTypeOK
  <2>3. ASSUME ~mistaken'
        PROVE  kept' # Foreign /\ \A b \in Backups : backup_path' = b => fs'[b] # Foreign
    BY <2>1, <2>3 DEF Exists, RenameFails, Moved, TargetComplete, BackupsWhole, TypeOK, FsTypeOK
  <2> QED
    BY <2>2, <2>3 DEF BackupsWhole
<1>22. CASE Replace
  BY <1>22 DEF Replace, RenameOk, Moved, Exists, txVars, TargetComplete, BackupsWhole,
         TypeOK, FsTypeOK, BodyVerified, BackupHolds
<1>23. CASE ReplaceFails
  BY <1>23 DEF ReplaceFails, RenameFails, Moved, Exists, txVars, TargetComplete,
         BackupsWhole, TypeOK, FsTypeOK, BodyVerified, BackupHolds
<1>24. CASE Undo
  BY <1>24 DEF Undo, RenameOk, Moved, Exists, RenameFails, Fail, txVars, TargetComplete,
         BackupsWhole, TypeOK, FsTypeOK, BodyVerified, BackupHolds
<1>25. CASE SyncContainingDirectory
  BY <1>25 DEF SyncContainingDirectory, txVars, TargetComplete, BackupsWhole, TypeOK,
         FsTypeOK, BodyVerified, BackupHolds
<1>26. CASE SyncContainingDirectoryFails
  BY <1>26 DEF SyncContainingDirectoryFails, txVars, TargetComplete, BackupsWhole, TypeOK,
         FsTypeOK, BodyVerified, BackupHolds
<1>27. CASE Rollback
  BY <1>27 DEF Rollback, RemoveFileOk, Removed, RemoveFileFails, Exists, Fail, txVars,
         TargetComplete, BackupsWhole, TypeOK, FsTypeOK, BodyVerified, BackupHolds
<1>28. CASE RollbackRename
  BY <1>28 DEF RollbackRename, RenameOk, Moved, Exists, RenameFails, Fail, txVars,
         TargetComplete, BackupsWhole, TypeOK, FsTypeOK, BodyVerified, BackupHolds
<1>29. CASE DropBackup
  BY <1>29 DEF DropBackup, RemoveFileOk, Removed, RemoveFileFails, Exists, txVars,
         TargetComplete, BackupsWhole, TypeOK, FsTypeOK, BodyVerified, BackupHolds
<1>30. CASE AbortTemp
  BY <1>30 DEF AbortTemp, RemoveFileOk, Removed, RemoveFileFails, Exists, txVars,
         TargetComplete, BackupsWhole, TypeOK, FsTypeOK, BodyVerified, BackupHolds
<1>31. CASE AbortRestore
  BY <1>31 DEF AbortRestore, Exists, RenameOk, Moved, RenameFails, txVars, TargetComplete,
         BackupsWhole, TypeOK, FsTypeOK, BodyVerified, BackupHolds
<1>32. CASE PowerLoss
  BY <1>32 DEF PowerLoss, txVars, TargetComplete, BackupsWhole, TypeOK, FsTypeOK,
         BodyVerified, BackupHolds
<1>33. CASE UNCHANGED vars
  BY <1>33 DEF vars, txVars, TargetComplete, BackupsWhole
<1> QED
  BY <1>1, <1>2, <1>3, <1>4, <1>5, <1>6, <1>7, <1>8, <1>9, <1>10, <1>11, <1>12,
     <1>13, <1>14, <1>15, <1>16, <1>17, <1>18, <1>19, <1>20, <1>21, <1>22, <1>23,
     <1>24, <1>25, <1>26, <1>27, <1>28, <1>29, <1>30, <1>31, <1>32, <1>33 DEF Next, Begin

(***************************************************************************)
(* Whatever files have the siblings' names and whatever fails, the target  *)
(* is only ever missing or one whole version, never a body in transit or   *)
(* one that failed its hash; somebody else's file is there only after Stat *)
(* of that file, under a backup sibling's name, has failed in Finish.      *)
(***************************************************************************)
THEOREM TargetAlwaysComplete == Spec => []TargetComplete
<1>1. Init => TargetComplete /\ BackupsWhole
  BY NamesDistinct DEF Init, TargetComplete, BackupsWhole, Missing, Foreign, None
<1> QED
  BY <1>1, WholeNext, FileInvariant, PTL DEF Spec

\* UploadSafe: an upload replaces the target in one piece or not at all, whatever
\* fails, whenever the power goes and whosever files have the siblings' names, the
\* one exception of TargetComplete included.
THEOREM UploadIsSafe == Spec => []UploadSafe
<1>1. UploadSafe <=> OldNeverLost /\ TargetComplete /\ OkMeansInstalled
  BY DEF UploadSafe
<1> QED
  BY <1>1, TargetAlwaysComplete, OldFileSurvives, OkIsInstalled, PTL
-----------------------------------------------------------------------------
(* What is left behind. *)

\* The siblings as they were found.
Own(p) == IF p \in Occupied THEN Foreign ELSE Missing

\* As long as nothing has failed, the siblings the transaction does not name are as
\* they were found, and those it names were free.
SiblingsClean ==
  ~faults =>
    /\ \A p \in Temps \cup Backups : p \notin {temporary_path, backup_path} => fs[p] = Own(p)
    /\ {temporary_path, backup_path} \cap Occupied = {}
    /\ pc = "Idle" => temporary_path = None /\ backup_path = None
    /\ pc = "Open" /\ discard => temporary_path = None
    /\ pc \in {"SyncDir", "DropBackup", "AbortRestore"} => temporary_path = None
    /\ pc \in {"AbortTemp", "AbortRestore"} /\ backup_path # None => fs[backup_path] = Missing
    /\ pc \notin {"Undo", "Rollback", "RollbackRename"}

\* A sibling is named only when it was free, and forgotten only when it is free again.
LEMMA CleanNext ==
  ASSUME FileInv, SiblingsClean, [Next]_vars
  PROVE  SiblingsClean'
<1> USE NamesDistinct DEF FileInv, Missing, Partial, Foreign, Bad, None
<1>1. ASSUME NEW v \in Versions, NEW b \in Versions \cup {Bad}, BeginDiscard(v, b)
    PROVE  SiblingsClean'
  BY <1>1 DEF BeginDiscard, Announce, SiblingsClean, Own, TypeOK, FsTypeOK,
         BodyVerified, BackupHolds
<1>2. ASSUME NEW v \in Versions, NEW b \in Versions \cup {Bad}, BeginWrite(v, b)
    PROVE  SiblingsClean'
  BY <1>2 DEF BeginWrite, Exists, CreateFileFreshOk, Announce, SiblingsClean, Own,
         TypeOK, FsTypeOK, BodyVerified, BackupHolds
<1>3. ASSUME NEW v \in Versions, NEW b \in Versions \cup {Bad}, BeginRefused(v, b)
    PROVE  SiblingsClean'
  BY <1>3 DEF BeginRefused, Exists, Announce, SiblingsClean, Own, TypeOK,
         FsTypeOK, BodyVerified, BackupHolds
<1>4. ASSUME NEW v \in Versions, NEW b \in Versions \cup {Bad}, SiblingUnknown(v, b)
    PROVE  SiblingsClean'
  BY <1>4 DEF SiblingUnknown, Exists, Announce, SiblingsClean, Own, TypeOK,
         FsTypeOK, BodyVerified, BackupHolds
<1>5. ASSUME NEW v \in Versions, NEW b \in Versions \cup {Bad}, CreateFailed(v, b)
    PROVE  SiblingsClean'
  BY <1>5 DEF CreateFailed, Exists, CreateFileFreshFails, CreateFileFreshOk, Announce,
         SiblingsClean, Own, TypeOK, FsTypeOK, BodyVerified, BackupHolds
<1>6. CASE Write
  BY <1>6 DEF Write, SiblingsClean, Own, TypeOK, FsTypeOK, BodyVerified,
         BackupHolds
<1>7. CASE WriteTooLong
  BY <1>7 DEF WriteTooLong, Fail, txVars, SiblingsClean, Own, TypeOK, FsTypeOK,
         BodyVerified, BeforeInstall
<1>8. CASE WriteFails
  BY <1>8 DEF WriteFails, Fail, txVars, SiblingsClean, Own, TypeOK, FsTypeOK,
         BodyVerified, BackupHolds
<1>9. CASE ClientGone
  BY <1>9 DEF ClientGone, Fail, txVars, SiblingsClean, Own, TypeOK, FsTypeOK,
         BodyVerified, BeforeInstall
<1>10. ASSUME NEW c \in {Missing} \cup Versions, OtherRequest(c)
    PROVE  SiblingsClean'
  BY <1>10 DEF OtherRequest, Exists, SiblingsClean, Own, TypeOK, FsTypeOK,
         BodyVerified, BackupHolds
<1>11. CASE FinishShort
  BY <1>11 DEF FinishShort, Fail, txVars, SiblingsClean, Own, TypeOK, FsTypeOK,
         BodyVerified, BeforeInstall
<1>12. CASE FinishHash
  BY <1>12 DEF FinishHash, Fail, HashOk, txVars, SiblingsClean, Own, TypeOK,
         FsTypeOK, BodyVerified, BeforeInstall
<1>13. CASE FinishDiscard
  BY <1>13 DEF FinishDiscard, HashOk, txVars, SiblingsClean, Own, TypeOK,
         FsTypeOK, BodyVerified, BeforeInstall
<1>14. CASE FinishWrite
  BY <1>14 DEF FinishWrite, HashOk, txVars, SiblingsClean, Own, TypeOK,
         FsTypeOK, BodyVerified, BackupHolds
<1>15. CASE Sync
  BY <1>15 DEF Sync, SyncOk, txVars, SiblingsClean, Own, TypeOK, FsTypeOK,
         BodyVerified, BackupHolds
<1>16. CASE SyncFails
  BY <1>16 DEF SyncFails, SyncOk, Fail, txVars, SiblingsClean, Own, TypeOK,
         FsTypeOK, BodyVerified, BackupHolds
<1>17. CASE TargetChanged
  BY <1>17 DEF TargetChanged, Exists, Fail, txVars, SiblingsClean, Own, TypeOK,
         FsTypeOK, BodyVerified, BeforeInstall
<1>18. CASE InstallFresh
  BY <1>18 DEF InstallFresh, RenameOk, Moved, Exists, txVars, SiblingsClean, Own,
         TypeOK, FsTypeOK, BodyVerified, BackupHolds
<1>19. CASE InstallFreshFails
  BY <1>19 DEF InstallFreshFails, RenameFails, Moved, Exists, Fail, txVars,
         SiblingsClean, Own, TypeOK, FsTypeOK, BodyVerified, BackupHolds
<1>20. CASE BackupTarget
  BY <1>20 DEF BackupTarget, Exists, RenameOk, Moved, txVars, SiblingsClean, Own,
         TypeOK, FsTypeOK, BodyVerified, BeforeInstall
<1>21. CASE BackupTargetFails
  BY <1>21 DEF BackupTargetFails, Exists, RenameFails, Moved, Fail, txVars,
         SiblingsClean, Own, TypeOK, FsTypeOK, BodyVerified, BackupHolds
<1>22. CASE Replace
  BY <1>22 DEF Replace, RenameOk, Moved, Exists, txVars, SiblingsClean, Own,
         TypeOK, FsTypeOK, BodyVerified, BackupHolds
<1>23. CASE ReplaceFails
  BY <1>23 DEF ReplaceFails, RenameFails, Moved, Exists, txVars, SiblingsClean, Own,
         TypeOK, FsTypeOK, BodyVerified, BackupHolds
<1>24. CASE Undo
  BY <1>24 DEF Undo, RenameOk, Moved, Exists, RenameFails, Fail, txVars, SiblingsClean, Own,
         TypeOK, FsTypeOK, BodyVerified, BackupHolds
<1>25. CASE SyncContainingDirectory
  BY <1>25 DEF SyncContainingDirectory, txVars, SiblingsClean, Own, TypeOK,
         FsTypeOK, BodyVerified, BackupHolds
<1>26. CASE SyncContainingDirectoryFails
  BY <1>26 DEF SyncContainingDirectoryFails, txVars, SiblingsClean, Own, TypeOK,
         FsTypeOK, BodyVerified, BackupHolds
<1>27. CASE Rollback
  BY <1>27 DEF Rollback, RemoveFileOk, Removed, RemoveFileFails, Exists, Fail, txVars,
         SiblingsClean, Own, TypeOK, FsTypeOK, BodyVerified, BackupHolds
<1>28. CASE RollbackRename
  BY <1>28 DEF RollbackRename, RenameOk, Moved, Exists, RenameFails, Fail, txVars,
         SiblingsClean, Own, TypeOK, FsTypeOK, BodyVerified, BackupHolds
<1>29. CASE DropBackup
  BY <1>29 DEF DropBackup, RemoveFileOk, Removed, RemoveFileFails, Exists, txVars,
         SiblingsClean, Own, TypeOK, FsTypeOK, BodyVerified, BackupHolds
<1>30. CASE AbortTemp
  BY <1>30 DEF AbortTemp, RemoveFileOk, Removed, RemoveFileFails, Exists, txVars,
         SiblingsClean, Own, TypeOK, FsTypeOK, BodyVerified, BackupHolds
<1>31. CASE AbortRestore
  BY <1>31 DEF AbortRestore, Exists, RenameOk, Moved, RenameFails, txVars, SiblingsClean, Own,
         TypeOK, FsTypeOK, BodyVerified, BackupHolds
<1>32. CASE PowerLoss
  BY <1>32 DEF PowerLoss, txVars, SiblingsClean, Own, TypeOK, FsTypeOK,
         BodyVerified, BackupHolds
<1>33. CASE UNCHANGED vars
  BY <1>33 DEF vars, txVars, SiblingsClean, Own
<1> QED
  BY <1>1, <1>2, <1>3, <1>4, <1>5, <1>6, <1>7, <1>8, <1>9, <1>10, <1>11, <1>12,
     <1>13, <1>14, <1>15, <1>16, <1>17, <1>18, <1>19, <1>20, <1>21, <1>22, <1>23,
     <1>24, <1>25, <1>26, <1>27, <1>28, <1>29, <1>30, <1>31, <1>32, <1>33 DEF Next, Begin

(***************************************************************************)
(* Between uploads no temporary file and no backup of ours is left behind  *)
(* and somebody else's files are untouched, however many uploads there     *)
(* were and however they ended, as long as no call has failed.             *)
(***************************************************************************)
THEOREM NothingLeftBehind == Spec => []CleanWithoutFaults
<1>1. Init => SiblingsClean
  BY NamesDistinct DEF Init, SiblingsClean, Own, Missing, Foreign, None
<1>2. FileInv /\ SiblingsClean => CleanWithoutFaults
  BY NamesDistinct DEF FileInv, TypeOK, SiblingsClean, CleanWithoutFaults, Own, None
<1> QED
  BY <1>1, <1>2, CleanNext, FileInvariant, PTL DEF Spec
=============================================================================
