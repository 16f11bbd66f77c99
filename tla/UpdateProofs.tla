----------------------------- MODULE UpdateProofs -----------------------------
(***************************************************************************)
(* The installer for every manifest its validation accepts and any number  *)
(* of releases, attempts, failing calls and power losses; and the update   *)
(* service over it for every set of releases, manifests, configurations    *)
(* and draft tickets: it implements the installer's specification, so that *)
(* the installer's theorems hold of the composed system, and keeps its own *)
(* promises.                                                               *)
(***************************************************************************)
EXTENDS UpdateService, TLAPS

\* What Install's validation of the manifest gives the proofs.
LEMMA ManifestFacts ==
  /\ Tmp \in Paths /\ Build \in Paths /\ Tmp # Build /\ None \notin Paths
  /\ Missing # Partial /\ Missing \notin Contents /\ Partial \notin Contents /\ UserContent \in Contents
  /\ Pass \in [Paths -> 0..3] /\ Pass[Build] = 3
  /\ \A p \in Paths : Pass[p] = 3 => p = Build
  /\ Build \notin Preserve /\ 0 \in Releases /\ Releases \subseteq Nat
  /\ \A r \in Releases :
       /\ Files(r) \subseteq Paths /\ Tmp \notin Files(r) /\ Build \in Files(r)
       /\ \A f \in Files(r) : Shipped[r][f] \in Contents
       /\ Deletions[r] \subseteq Paths /\ Tmp \notin Deletions[r]
       /\ Deletions[r] \cap Files(r) = {}
       /\ \A q \in Releases : q < r => Shipped[q][Build] # Shipped[r][Build]
BY UpdateInstallerAssumption, UpdateFileSystemAssumption 
   DEF ManifestValid, Files, Tmp, Build, None, Missing, Partial

\* The factory image satisfies the invariant.
LEMMA InstallInvInit == Init => InstallInv
<1> SUFFICES ASSUME Init PROVE InstallInv
  OBVIOUS
<1> USE ManifestFacts DEF Init
<1>1. TypeOK
  <2>1. FsTypeOK
    BY DEF FsTypeOK
  <2>2. DOMAIN action = {}
    BY DEF NoActions
  <2>3. reset \in BOOLEAN
    OBVIOUS
  <2>4. pass \in 0..3 /\ pc \in Pcs
    BY DEF Pcs
  <2> QED
    BY <2>1, <2>2, <2>3, <2>4 DEF TypeOK
<1>2. IdentityTruthful
  BY DEF IdentityTruthful, Published, Exists
<1>3. Planned /\ WorkDone /\ PassesDone /\ EntryDue /\ IdentityLast
  BY DEF Planned, WorkDone, PassesDone, EntryDue, IdentityLast, Installing
<1> QED
  BY <1>1, <1>2, <1>3 DEF InstallInv

\* The workspace is well typed when Install returns.
LEMMA StopTyped ==
  ASSUME NEW s, Stop(s)
  PROVE  /\ reset' \in BOOLEAN /\ DOMAIN action' = {} /\ pass' \in 0..3
         /\ done' = {} /\ entry' = None /\ deleted' = {} /\ pc' = "Idle" /\ status' = s
<1>1. reset' \in BOOLEAN
  BY Zenon DEF Stop
<1> QED
  BY <1>1 DEF Stop, NoActions

\* Every step keeps it, failing calls and power losses included.
LEMMA InstallInvNext == InstallInv /\ [Next]_vars => InstallInv'
<1> SUFFICES ASSUME InstallInv, [Next]_vars
             PROVE  InstallInv'
  OBVIOUS
<1> USE ManifestFacts DEF InstallInv
<1>1. ASSUME NEW r \in Releases, NEW agreement \in BOOLEAN, Install(r, agreement)
    PROVE  InstallInv'
  <2>1. TypeOK'
    BY <1>1 DEF Install, InstallStarts, Eligible, NoActions, TypeOK, FsTypeOK, Pcs, EntryDue, ToInstall
  <2>2. IdentityTruthful'
    <3>1. PICK q \in Releases : q < r /\ fs[Build] = Shipped[q][Build]
      BY <1>1 DEF Install, InstallStarts, Eligible
    <3>2. Shipped[q][Build] # Shipped[r][Build]
      BY <3>1
    <3>3. rel' = r /\ fs' = fs
      BY <1>1 DEF Install, InstallStarts, Eligible
    <3> QED
      BY <3>1, <3>2, <3>3 DEF IdentityTruthful
  <2>3. Planned'
    BY <1>1 DEF Install, InstallStarts, Eligible, NoActions, Planned, TypeOK, FsTypeOK, Installing, Delivered,
           Exists, Preserved, Managed, EntryDue, ToInstall
  <2>4. WorkDone'
    BY <1>1 DEF Install, InstallStarts, Eligible, NoActions, WorkDone, TypeOK, FsTypeOK, Installing, Delivered,
           Preserved, Exists, EntryDue, ToInstall, Managed
  <2>5. PassesDone'
    BY <1>1 DEF Install, InstallStarts, Eligible, NoActions, PassesDone, TypeOK, FsTypeOK, WorkDone, Installing,
           EntryDue, ToInstall, Planned
  <2>6. EntryDue'
    BY <1>1 DEF Install, InstallStarts, Eligible, NoActions, EntryDue, TypeOK, FsTypeOK, ToInstall, Installing
  <2>7. IdentityLast'
    BY <1>1 DEF Install, InstallStarts, Eligible, NoActions, IdentityLast, TypeOK, FsTypeOK, Installing, EntryDue,
           ToInstall
  <2> QED
    BY <2>1, <2>2, <2>3, <2>4, <2>5, <2>6, <2>7
<1>2. ASSUME NEW f \in Paths, UserEdits(f)
    PROVE  InstallInv'
  <2>1. TypeOK'
    BY <1>2 DEF UserEdits, Exists, Managed, TypeOK, FsTypeOK, Pcs, EntryDue, ToInstall
  <2>2. IdentityTruthful'
    BY <1>2 DEF UserEdits, Exists, Managed, IdentityTruthful, TypeOK, FsTypeOK,
           IdentityLast, Delivered, Published, Planned, WorkDone, PassesDone,
           EntryDue, Installing, ToInstall, Preserved
  <2>3. Planned'
    BY <1>2 DEF UserEdits, Exists, Managed, Planned, TypeOK, FsTypeOK, Installing,
           Delivered, Preserved, EntryDue, ToInstall
  <2>4. WorkDone'
    BY <1>2 DEF UserEdits, Exists, Managed, WorkDone, TypeOK, FsTypeOK, Installing,
           Delivered, Preserved, EntryDue, ToInstall
  <2>5. PassesDone'
    BY <1>2 DEF UserEdits, Exists, Managed, PassesDone, TypeOK, FsTypeOK, WorkDone,
           Installing, EntryDue, ToInstall, Planned
  <2>6. EntryDue'
    BY <1>2 DEF UserEdits, Exists, Managed, EntryDue, TypeOK, FsTypeOK, ToInstall,
           Installing
  <2>7. IdentityLast'
    BY <1>2 DEF UserEdits, Exists, Managed, IdentityLast, TypeOK, FsTypeOK, Installing,
           EntryDue, ToInstall
  <2> QED
    BY <2>1, <2>2, <2>3, <2>4, <2>5, <2>6, <2>7
<1>3. ASSUME NEW f \in Paths, HashTarget(f)
    PROVE  InstallInv'
  <2>1. TypeOK'
    BY <1>3 DEF HashTarget, ActionOf, Preserved, Exists, TypeOK, FsTypeOK, Pcs, EntryDue,
           ToInstall
  <2>2. IdentityTruthful'
    BY <1>3 DEF HashTarget, ActionOf, Preserved, Exists, IdentityTruthful, TypeOK,
           FsTypeOK, IdentityLast, Delivered, Published, Managed, Planned, WorkDone,
           PassesDone, EntryDue, Installing, ToInstall
  <2>3. Planned'
    BY <1>3 DEF HashTarget, ActionOf, Preserved, Exists, Planned, TypeOK, FsTypeOK,
           Installing, Delivered, Managed, EntryDue, ToInstall
  <2>4. WorkDone'
    BY <1>3 DEF HashTarget, ActionOf, Preserved, Exists, WorkDone, TypeOK, FsTypeOK,
           Installing, Delivered, EntryDue, ToInstall, Managed
  <2>5. PassesDone'
    BY <1>3 DEF HashTarget, ActionOf, Preserved, Exists, PassesDone, TypeOK, FsTypeOK,
           WorkDone, Installing, EntryDue, ToInstall, Planned
  <2>6. EntryDue'
    BY <1>3 DEF HashTarget, ActionOf, Preserved, Exists, EntryDue, TypeOK, FsTypeOK,
           ToInstall, Installing
  <2>7. IdentityLast'
    BY <1>3 DEF HashTarget, ActionOf, Preserved, Exists, IdentityLast, TypeOK, FsTypeOK,
           Installing, EntryDue, ToInstall
  <2> QED
    BY <2>1, <2>2, <2>3, <2>4, <2>5, <2>6, <2>7
<1>4. ASSUME NEW f \in Paths, BeginEntry(f)
    PROVE  InstallInv'
  <2>1. TypeOK'
    BY <1>4 DEF BeginEntry, ToInstall, TypeOK, FsTypeOK, Pcs, EntryDue
  <2>2. IdentityTruthful'
    BY <1>4 DEF BeginEntry, ToInstall, IdentityTruthful, TypeOK, FsTypeOK, IdentityLast,
           Delivered, Published, Exists, Managed, Planned, WorkDone, PassesDone,
           EntryDue, Installing, Preserved
  <2>3. Planned'
    BY <1>4 DEF BeginEntry, ToInstall, Planned, TypeOK, FsTypeOK, Installing, Delivered,
           Exists, Preserved, Managed, EntryDue
  <2>4. WorkDone'
    BY <1>4 DEF BeginEntry, ToInstall, WorkDone, TypeOK, FsTypeOK, Installing, Delivered,
           Preserved, Exists, EntryDue, Managed
  <2>5. PassesDone'
    BY <1>4 DEF BeginEntry, ToInstall, PassesDone, TypeOK, FsTypeOK, WorkDone,
           Installing, EntryDue, Planned
  <2>6. EntryDue'
    BY <1>4 DEF BeginEntry, ToInstall, EntryDue, TypeOK, FsTypeOK, Installing
  <2>7. IdentityLast'
    BY <1>4 DEF BeginEntry, ToInstall, IdentityLast, TypeOK, FsTypeOK, Installing,
           EntryDue
  <2> QED
    BY <2>1, <2>2, <2>3, <2>4, <2>5, <2>6, <2>7
<1>5. ASSUME NEW f \in Paths, BeginEntryFails(f)
    PROVE  InstallInv'
  <2>1. TypeOK'
    BY <1>5 DEF BeginEntryFails, Removed, ToInstall, TypeOK, FsTypeOK, Pcs, EntryDue
  <2>2. IdentityTruthful'
    BY <1>5 DEF BeginEntryFails, Removed, ToInstall, IdentityTruthful, TypeOK, FsTypeOK,
           IdentityLast, Delivered, Published, Exists, Managed, Planned, WorkDone,
           PassesDone, EntryDue, Installing, Preserved
  <2>3. Planned'
    BY <1>5 DEF BeginEntryFails, Removed, ToInstall, Planned, TypeOK, FsTypeOK,
           Installing, Delivered, Exists, Preserved, Managed, EntryDue
  <2>4. WorkDone'
    BY <1>5 DEF BeginEntryFails, Removed, ToInstall, WorkDone, TypeOK, FsTypeOK,
           Installing, Delivered, Preserved, Exists, EntryDue, Managed
  <2>5. PassesDone'
    BY <1>5 DEF BeginEntryFails, Removed, ToInstall, PassesDone, TypeOK, FsTypeOK,
           WorkDone, Installing, EntryDue, Planned
  <2>6. EntryDue'
    BY <1>5 DEF BeginEntryFails, Removed, ToInstall, EntryDue, TypeOK, FsTypeOK,
           Installing
  <2>7. IdentityLast'
    BY <1>5 DEF BeginEntryFails, Removed, ToInstall, IdentityLast, TypeOK, FsTypeOK,
           Installing, EntryDue
  <2> QED
    BY <2>1, <2>2, <2>3, <2>4, <2>5, <2>6, <2>7
<1>6. ASSUME NEW f \in Paths, RemoveSignedFile(f)
    PROVE  InstallInv'
  <2>1. TypeOK'
    BY <1>6 DEF RemoveSignedFile, RemoveFileOk, Removed, TypeOK, FsTypeOK, Pcs, EntryDue,
           ToInstall
  <2>2. IdentityTruthful'
    BY <1>6 DEF RemoveSignedFile, RemoveFileOk, Removed, IdentityTruthful, TypeOK,
           FsTypeOK, IdentityLast, Delivered, Published, Exists, Managed, Planned,
           WorkDone, PassesDone, EntryDue, Installing, ToInstall, Preserved
  <2>3. Planned'
    BY <1>6 DEF RemoveSignedFile, RemoveFileOk, Removed, Planned, TypeOK, FsTypeOK,
           Installing, Delivered, Exists, Preserved, Managed, EntryDue, ToInstall
  <2>4. WorkDone'
    BY <1>6 DEF RemoveSignedFile, RemoveFileOk, Removed, WorkDone, TypeOK, FsTypeOK,
           Installing, Delivered, Preserved, Exists, EntryDue, ToInstall, Managed
  <2>5. PassesDone'
    BY <1>6 DEF RemoveSignedFile, RemoveFileOk, Removed, PassesDone, TypeOK, FsTypeOK,
           WorkDone, Installing, EntryDue, ToInstall, Planned
  <2>6. EntryDue'
    BY <1>6 DEF RemoveSignedFile, RemoveFileOk, Removed, EntryDue, TypeOK, FsTypeOK,
           ToInstall, Installing
  <2>7. IdentityLast'
    BY <1>6 DEF RemoveSignedFile, RemoveFileOk, Removed, IdentityLast, TypeOK, FsTypeOK,
           Installing, EntryDue, ToInstall
  <2> QED
    BY <2>1, <2>2, <2>3, <2>4, <2>5, <2>6, <2>7
<1>7. ASSUME NEW f \in Paths, RemoveSignedFileFails(f)
    PROVE  InstallInv'
  <2>1. TypeOK'
    BY <1>7, StopTyped DEF RemoveSignedFileFails, RemoveFileFails, Removed, Exists, TypeOK,
           FsTypeOK, Pcs, EntryDue, ToInstall
  <2>2. IdentityTruthful'
    BY <1>7 DEF RemoveSignedFileFails, RemoveFileFails, Removed, Exists, Stop,
           IdentityTruthful, TypeOK, FsTypeOK, IdentityLast, Delivered, Published,
           Managed, Planned, WorkDone, PassesDone, EntryDue, Installing, ToInstall,
           Preserved
  <2>3. Planned'
    BY <1>7 DEF RemoveSignedFileFails, RemoveFileFails, Removed, Exists, Stop, Planned,
           TypeOK, FsTypeOK, Installing, Delivered, Preserved, Managed, EntryDue,
           ToInstall
  <2>4. WorkDone'
    BY <1>7 DEF RemoveSignedFileFails, RemoveFileFails, Removed, Exists, Stop, WorkDone,
           TypeOK, FsTypeOK, Installing, Delivered, Preserved, EntryDue, ToInstall,
           Managed
  <2>5. PassesDone'
    BY <1>7 DEF RemoveSignedFileFails, RemoveFileFails, Removed, Exists, Stop,
           PassesDone, TypeOK, FsTypeOK, WorkDone, Installing, EntryDue, ToInstall,
           Planned
  <2>6. EntryDue'
    BY <1>7 DEF RemoveSignedFileFails, RemoveFileFails, Removed, Exists, Stop, EntryDue,
           TypeOK, FsTypeOK, ToInstall, Installing
  <2>7. IdentityLast'
    BY <1>7 DEF RemoveSignedFileFails, RemoveFileFails, Removed, Exists, Stop,
           IdentityLast, TypeOK, FsTypeOK, Installing, EntryDue, ToInstall
  <2> QED
    BY <2>1, <2>2, <2>3, <2>4, <2>5, <2>6, <2>7
<1>8. CASE HashStops
  <2>1. TypeOK'
    BY <1>8, StopTyped DEF HashStops, TypeOK, FsTypeOK, Pcs, EntryDue, ToInstall
  <2>2. IdentityTruthful'
    BY <1>8 DEF HashStops, Stop, IdentityTruthful, TypeOK, FsTypeOK, IdentityLast,
           Delivered, Published, Exists, Managed, Planned, WorkDone, PassesDone,
           EntryDue, Installing, ToInstall, Preserved
  <2>3. Planned'
    BY <1>8 DEF HashStops, Stop, Planned, TypeOK, FsTypeOK, Installing, Delivered,
           Exists, Preserved, Managed, EntryDue, ToInstall
  <2>4. WorkDone'
    BY <1>8 DEF HashStops, Stop, WorkDone, TypeOK, FsTypeOK, Installing, Delivered,
           Preserved, Exists, EntryDue, ToInstall, Managed
  <2>5. PassesDone'
    BY <1>8 DEF HashStops, Stop, PassesDone, TypeOK, FsTypeOK, WorkDone, Installing,
           EntryDue, ToInstall, Planned
  <2>6. EntryDue'
    BY <1>8 DEF HashStops, Stop, EntryDue, TypeOK, FsTypeOK, ToInstall, Installing
  <2>7. IdentityLast'
    BY <1>8 DEF HashStops, Stop, IdentityLast, TypeOK, FsTypeOK, Installing, EntryDue,
           ToInstall
  <2> QED
    BY <2>1, <2>2, <2>3, <2>4, <2>5, <2>6, <2>7
<1>9. CASE Prepare
  <2>1. TypeOK'
    BY <1>9 DEF Prepare, RemoveFileOk, Removed, TypeOK, FsTypeOK, Pcs, EntryDue,
           ToInstall
  <2>2. IdentityTruthful'
    BY <1>9 DEF Prepare, RemoveFileOk, Removed, IdentityTruthful, TypeOK, FsTypeOK,
           IdentityLast, Delivered, Published, Exists, Managed, Planned, WorkDone,
           PassesDone, EntryDue, Installing, ToInstall, Preserved
  <2>3. Planned'
    BY <1>9 DEF Prepare, RemoveFileOk, Removed, Planned, TypeOK, FsTypeOK, Installing,
           Delivered, Exists, Preserved, Managed, EntryDue, ToInstall
  <2>4. WorkDone'
    BY <1>9 DEF Prepare, RemoveFileOk, Removed, WorkDone, TypeOK, FsTypeOK, Installing,
           Delivered, Preserved, Exists, EntryDue, ToInstall, Managed
  <2>5. PassesDone'
    BY <1>9 DEF Prepare, RemoveFileOk, Removed, PassesDone, TypeOK, FsTypeOK, WorkDone,
           Installing, EntryDue, ToInstall, Planned
  <2>6. EntryDue'
    BY <1>9 DEF Prepare, RemoveFileOk, Removed, EntryDue, TypeOK, FsTypeOK, ToInstall,
           Installing
  <2>7. IdentityLast'
    BY <1>9 DEF Prepare, RemoveFileOk, Removed, IdentityLast, TypeOK, FsTypeOK,
           Installing, EntryDue, ToInstall
  <2> QED
    BY <2>1, <2>2, <2>3, <2>4, <2>5, <2>6, <2>7
<1>10. CASE PrepareFails
  <2>1. TypeOK'
    BY <1>10, StopTyped DEF PrepareFails, RemoveFileOk, Removed, RemoveFileFails, Exists,
           TypeOK, FsTypeOK, Pcs, EntryDue, ToInstall
  <2>2. IdentityTruthful'
    BY <1>10 DEF PrepareFails, RemoveFileOk, Removed, RemoveFileFails, Exists, Stop,
           IdentityTruthful, TypeOK, FsTypeOK, IdentityLast, Delivered, Published,
           Managed, Planned, WorkDone, PassesDone, EntryDue, Installing, ToInstall,
           Preserved
  <2>3. Planned'
    BY <1>10 DEF PrepareFails, RemoveFileOk, Removed, RemoveFileFails, Exists, Stop,
           Planned, TypeOK, FsTypeOK, Installing, Delivered, Preserved, Managed,
           EntryDue, ToInstall
  <2>4. WorkDone'
    BY <1>10 DEF PrepareFails, RemoveFileOk, Removed, RemoveFileFails, Exists, Stop,
           WorkDone, TypeOK, FsTypeOK, Installing, Delivered, Preserved, EntryDue,
           ToInstall, Managed
  <2>5. PassesDone'
    BY <1>10 DEF PrepareFails, RemoveFileOk, Removed, RemoveFileFails, Exists, Stop,
           PassesDone, TypeOK, FsTypeOK, WorkDone, Installing, EntryDue, ToInstall,
           Planned
  <2>6. EntryDue'
    BY <1>10 DEF PrepareFails, RemoveFileOk, Removed, RemoveFileFails, Exists, Stop,
           EntryDue, TypeOK, FsTypeOK, ToInstall, Installing
  <2>7. IdentityLast'
    BY <1>10 DEF PrepareFails, RemoveFileOk, Removed, RemoveFileFails, Exists, Stop,
           IdentityLast, TypeOK, FsTypeOK, Installing, EntryDue, ToInstall
  <2> QED
    BY <2>1, <2>2, <2>3, <2>4, <2>5, <2>6, <2>7
<1>11. CASE CommitEntrySync
  <2>1. TypeOK'
    BY <1>11 DEF CommitEntrySync, SyncOk, TypeOK, FsTypeOK, Pcs, EntryDue, ToInstall
  <2>2. IdentityTruthful'
    BY <1>11 DEF CommitEntrySync, SyncOk, IdentityTruthful, TypeOK, FsTypeOK,
           IdentityLast, Delivered, Published, Exists, Managed, Planned, WorkDone,
           PassesDone, EntryDue, Installing, ToInstall, Preserved
  <2>3. Planned'
    BY <1>11 DEF CommitEntrySync, SyncOk, Planned, TypeOK, FsTypeOK, Installing,
           Delivered, Exists, Preserved, Managed, EntryDue, ToInstall
  <2>4. WorkDone'
    BY <1>11 DEF CommitEntrySync, SyncOk, WorkDone, TypeOK, FsTypeOK, Installing,
           Delivered, Preserved, Exists, EntryDue, ToInstall, Managed
  <2>5. PassesDone'
    BY <1>11 DEF CommitEntrySync, SyncOk, PassesDone, TypeOK, FsTypeOK, WorkDone,
           Installing, EntryDue, ToInstall, Planned
  <2>6. EntryDue'
    BY <1>11 DEF CommitEntrySync, SyncOk, EntryDue, TypeOK, FsTypeOK, ToInstall,
           Installing
  <2>7. IdentityLast'
    BY <1>11 DEF CommitEntrySync, SyncOk, IdentityLast, TypeOK, FsTypeOK, Installing,
           EntryDue, ToInstall
  <2> QED
    BY <2>1, <2>2, <2>3, <2>4, <2>5, <2>6, <2>7
<1>12. CASE CommitEntrySyncFails
  <2>1. TypeOK'
    BY <1>12 DEF CommitEntrySyncFails, SyncOk, TypeOK, FsTypeOK, Pcs, EntryDue, ToInstall
  <2>2. IdentityTruthful'
    BY <1>12 DEF CommitEntrySyncFails, SyncOk, IdentityTruthful, TypeOK, FsTypeOK,
           IdentityLast, Delivered, Published, Exists, Managed, Planned, WorkDone,
           PassesDone, EntryDue, Installing, ToInstall, Preserved
  <2>3. Planned'
    BY <1>12 DEF CommitEntrySyncFails, SyncOk, Planned, TypeOK, FsTypeOK, Installing,
           Delivered, Exists, Preserved, Managed, EntryDue, ToInstall
  <2>4. WorkDone'
    BY <1>12 DEF CommitEntrySyncFails, SyncOk, WorkDone, TypeOK, FsTypeOK, Installing,
           Delivered, Preserved, Exists, EntryDue, ToInstall, Managed
  <2>5. PassesDone'
    BY <1>12 DEF CommitEntrySyncFails, SyncOk, PassesDone, TypeOK, FsTypeOK, WorkDone,
           Installing, EntryDue, ToInstall, Planned
  <2>6. EntryDue'
    BY <1>12 DEF CommitEntrySyncFails, SyncOk, EntryDue, TypeOK, FsTypeOK, ToInstall,
           Installing
  <2>7. IdentityLast'
    BY <1>12 DEF CommitEntrySyncFails, SyncOk, IdentityLast, TypeOK, FsTypeOK, Installing,
           EntryDue, ToInstall
  <2> QED
    BY <2>1, <2>2, <2>3, <2>4, <2>5, <2>6, <2>7
<1>13. CASE RenameUnlink
  <2>1. TypeOK'
    BY <1>13 DEF RenameUnlink, Removed, TypeOK, FsTypeOK, Pcs, EntryDue, ToInstall
  <2>2. IdentityTruthful'
    BY <1>13 DEF RenameUnlink, Removed, IdentityTruthful, TypeOK, FsTypeOK, IdentityLast,
           Delivered, Published, Exists, Managed, Planned, WorkDone, PassesDone,
           EntryDue, Installing, ToInstall, Preserved
  <2>3. Planned'
    BY <1>13 DEF RenameUnlink, Removed, Planned, TypeOK, FsTypeOK, Installing, Delivered,
           Exists, Preserved, Managed, EntryDue, ToInstall
  <2>4. WorkDone'
    BY <1>13 DEF RenameUnlink, Removed, WorkDone, TypeOK, FsTypeOK, Installing, Delivered,
           Preserved, Exists, EntryDue, ToInstall, Managed
  <2>5. PassesDone'
    BY <1>13 DEF RenameUnlink, Removed, PassesDone, TypeOK, FsTypeOK, WorkDone,
           Installing, EntryDue, ToInstall, Planned
  <2>6. EntryDue'
    BY <1>13 DEF RenameUnlink, Removed, EntryDue, TypeOK, FsTypeOK, ToInstall, Installing
  <2>7. IdentityLast'
    BY <1>13 DEF RenameUnlink, Removed, IdentityLast, TypeOK, FsTypeOK, Installing,
           EntryDue, ToInstall
  <2> QED
    BY <2>1, <2>2, <2>3, <2>4, <2>5, <2>6, <2>7
<1>14. CASE RenameEntry
  <2>1. TypeOK'
    BY <1>14 DEF RenameEntry, Moved, Exists, TypeOK, FsTypeOK, Pcs, EntryDue, ToInstall
  <2>2. IdentityTruthful'
    BY <1>14 DEF RenameEntry, Moved, Exists, IdentityTruthful, TypeOK, FsTypeOK,
           IdentityLast, Delivered, Published, Managed, Planned, WorkDone,
           PassesDone, EntryDue, Installing, ToInstall, Preserved
  <2>3. Planned'
    BY <1>14 DEF RenameEntry, Moved, Exists, Planned, TypeOK, FsTypeOK, Installing,
           Delivered, Preserved, Managed, EntryDue, ToInstall
  <2>4. WorkDone'
    BY <1>14 DEF RenameEntry, Moved, Exists, WorkDone, TypeOK, FsTypeOK, Installing,
           Delivered, Preserved, EntryDue, ToInstall, Managed
  <2>5. PassesDone'
    BY <1>14 DEF RenameEntry, Moved, Exists, PassesDone, TypeOK, FsTypeOK, WorkDone,
           Installing, EntryDue, ToInstall, Planned
  <2>6. EntryDue'
    BY <1>14 DEF RenameEntry, Moved, Exists, EntryDue, TypeOK, FsTypeOK, ToInstall,
           Installing
  <2>7. IdentityLast'
    BY <1>14 DEF RenameEntry, Moved, Exists, IdentityLast, TypeOK, FsTypeOK, Installing,
           EntryDue, ToInstall
  <2> QED
    BY <2>1, <2>2, <2>3, <2>4, <2>5, <2>6, <2>7
<1>15. CASE RenameFailsEntry
  <2>1. TypeOK'
    BY <1>15 DEF RenameFailsEntry, Moved, Exists, Removed, TypeOK, FsTypeOK, Pcs,
           EntryDue, ToInstall
  <2>2. IdentityTruthful'
    BY <1>15 DEF RenameFailsEntry, Moved, Exists, Removed, IdentityTruthful, TypeOK,
           FsTypeOK, IdentityLast, Delivered, Published, Managed, Planned, WorkDone,
           PassesDone, EntryDue, Installing, ToInstall, Preserved
  <2>3. Planned'
    BY <1>15 DEF RenameFailsEntry, Moved, Exists, Removed, Planned, TypeOK, FsTypeOK,
           Installing, Delivered, Preserved, Managed, EntryDue, ToInstall
  <2>4. WorkDone'
    BY <1>15 DEF RenameFailsEntry, Moved, Exists, Removed, WorkDone, TypeOK, FsTypeOK,
           Installing, Delivered, Preserved, EntryDue, ToInstall, Managed
  <2>5. PassesDone'
    BY <1>15 DEF RenameFailsEntry, Moved, Exists, Removed, PassesDone, TypeOK, FsTypeOK,
           WorkDone, Installing, EntryDue, ToInstall, Planned
  <2>6. EntryDue'
    BY <1>15 DEF RenameFailsEntry, Moved, Exists, Removed, EntryDue, TypeOK, FsTypeOK,
           ToInstall, Installing
  <2>7. IdentityLast'
    BY <1>15 DEF RenameFailsEntry, Moved, Exists, Removed, IdentityLast, TypeOK, FsTypeOK,
           Installing, EntryDue, ToInstall
  <2> QED
    BY <2>1, <2>2, <2>3, <2>4, <2>5, <2>6, <2>7
<1>16. CASE FailedCleanup
  <2>1. TypeOK'
    BY <1>16, StopTyped DEF FailedCleanup, RemoveFileOk, Removed, RemoveFileFails, Exists, TypeOK,
           FsTypeOK, Pcs, EntryDue, ToInstall
  <2>2. IdentityTruthful'
    BY <1>16 DEF FailedCleanup, Stop, RemoveFileOk, Removed, RemoveFileFails, Exists,
           IdentityTruthful, TypeOK, FsTypeOK, IdentityLast, Delivered, Published,
           Managed, Planned, WorkDone, PassesDone, EntryDue, Installing, ToInstall,
           Preserved
  <2>3. Planned'
    BY <1>16 DEF FailedCleanup, Stop, RemoveFileOk, Removed, RemoveFileFails, Exists, Planned,
           TypeOK, FsTypeOK, Installing, Delivered, Preserved, Managed, EntryDue,
           ToInstall
  <2>4. WorkDone'
    BY <1>16 DEF FailedCleanup, Stop, RemoveFileOk, Removed, RemoveFileFails, Exists, WorkDone,
           TypeOK, FsTypeOK, Installing, Delivered, Preserved, EntryDue, ToInstall,
           Managed
  <2>5. PassesDone'
    BY <1>16 DEF FailedCleanup, Stop, RemoveFileOk, Removed, RemoveFileFails, Exists,
           PassesDone, TypeOK, FsTypeOK, WorkDone, Installing, EntryDue, ToInstall,
           Planned
  <2>6. EntryDue'
    BY <1>16 DEF FailedCleanup, Stop, RemoveFileOk, Removed, RemoveFileFails, Exists, EntryDue,
           TypeOK, FsTypeOK, ToInstall, Installing
  <2>7. IdentityLast'
    BY <1>16 DEF FailedCleanup, Stop, RemoveFileOk, Removed, RemoveFileFails, Exists,
           IdentityLast, TypeOK, FsTypeOK, Installing, EntryDue, ToInstall
  <2> QED
    BY <2>1, <2>2, <2>3, <2>4, <2>5, <2>6, <2>7
<1>17. CASE NextPass
  <2>1. TypeOK'
    BY <1>17 DEF NextPass, PassDone, ToInstall, TypeOK, FsTypeOK, Pcs, EntryDue
  <2>2. IdentityTruthful'
    BY <1>17 DEF NextPass, PassDone, ToInstall, IdentityTruthful, TypeOK, FsTypeOK,
           IdentityLast, Delivered, Published, Exists, Managed, Planned, WorkDone,
           PassesDone, EntryDue, Installing, Preserved
  <2>3. Planned'
    BY <1>17 DEF NextPass, PassDone, ToInstall, Planned, TypeOK, FsTypeOK, Installing,
           Delivered, Exists, Preserved, Managed, EntryDue
  <2>4. WorkDone'
    BY <1>17 DEF NextPass, PassDone, ToInstall, WorkDone, TypeOK, FsTypeOK, Installing,
           Delivered, Preserved, Exists, EntryDue, Managed
  <2>5. PassesDone'
    BY <1>17 DEF NextPass, PassDone, ToInstall, PassesDone, TypeOK, FsTypeOK, WorkDone,
           Installing, EntryDue, Planned
  <2>6. EntryDue'
    BY <1>17 DEF NextPass, PassDone, ToInstall, EntryDue, TypeOK, FsTypeOK, Installing
  <2>7. IdentityLast'
    BY <1>17 DEF NextPass, PassDone, ToInstall, IdentityLast, TypeOK, FsTypeOK,
           Installing, EntryDue
  <2> QED
    BY <2>1, <2>2, <2>3, <2>4, <2>5, <2>6, <2>7
<1>18. CASE DeletionsDone
  <2>1. TypeOK'
    BY <1>18 DEF DeletionsDone, TypeOK, FsTypeOK, Pcs, EntryDue, ToInstall
  <2>2. IdentityTruthful'
    BY <1>18 DEF DeletionsDone, IdentityTruthful, TypeOK, FsTypeOK, IdentityLast,
           Delivered, Published, Exists, Managed, Planned, WorkDone, PassesDone,
           EntryDue, Installing, ToInstall, Preserved
  <2>3. Planned'
    BY <1>18 DEF DeletionsDone, Planned, TypeOK, FsTypeOK, Installing, Delivered, Exists,
           Preserved, Managed, EntryDue, ToInstall
  <2>4. WorkDone'
    BY <1>18 DEF DeletionsDone, WorkDone, TypeOK, FsTypeOK, Installing, Delivered,
           Preserved, Exists, EntryDue, ToInstall, Managed
  <2>5. PassesDone'
    BY <1>18 DEF DeletionsDone, PassesDone, TypeOK, FsTypeOK, WorkDone, Installing,
           EntryDue, ToInstall, Planned
  <2>6. EntryDue'
    BY <1>18 DEF DeletionsDone, EntryDue, TypeOK, FsTypeOK, ToInstall, Installing
  <2>7. IdentityLast'
    BY <1>18 DEF DeletionsDone, IdentityLast, TypeOK, FsTypeOK, Installing, EntryDue,
           ToInstall
  <2> QED
    BY <2>1, <2>2, <2>3, <2>4, <2>5, <2>6, <2>7
<1>19. CASE Committed
  <2>1. TypeOK'
    BY <1>19, StopTyped DEF Committed, RemoveFileOk, Removed, RemoveFileFails, Exists,
           PassDone, ToInstall, TypeOK, FsTypeOK, Pcs, EntryDue
  <2>2. IdentityTruthful'
    BY <1>19 DEF Committed, RemoveFileOk, Removed, RemoveFileFails, Exists, Stop,
           PassDone, ToInstall, IdentityTruthful, TypeOK, FsTypeOK, IdentityLast,
           Delivered, Published, Managed, Planned, WorkDone, PassesDone, EntryDue,
           Installing, Preserved
  <2>3. Planned'
    BY <1>19 DEF Committed, RemoveFileOk, Removed, RemoveFileFails, Exists, Stop,
           PassDone, ToInstall, Planned, TypeOK, FsTypeOK, Installing, Delivered,
           Preserved, Managed, EntryDue
  <2>4. WorkDone'
    BY <1>19 DEF Committed, RemoveFileOk, Removed, RemoveFileFails, Exists, Stop,
           PassDone, ToInstall, WorkDone, TypeOK, FsTypeOK, Installing, Delivered,
           Preserved, EntryDue, Managed
  <2>5. PassesDone'
    BY <1>19 DEF Committed, RemoveFileOk, Removed, RemoveFileFails, Exists, Stop,
           PassDone, ToInstall, PassesDone, TypeOK, FsTypeOK, WorkDone, Installing,
           EntryDue, Planned
  <2>6. EntryDue'
    BY <1>19 DEF Committed, RemoveFileOk, Removed, RemoveFileFails, Exists, Stop,
           PassDone, ToInstall, EntryDue, TypeOK, FsTypeOK, Installing
  <2>7. IdentityLast'
    BY <1>19 DEF Committed, RemoveFileOk, Removed, RemoveFileFails, Exists, Stop,
           PassDone, ToInstall, IdentityLast, TypeOK, FsTypeOK, Installing, EntryDue
  <2> QED
    BY <2>1, <2>2, <2>3, <2>4, <2>5, <2>6, <2>7
<1>20. CASE PowerLoss
  <2>1. TypeOK'
    BY <1>20, StopTyped DEF PowerLoss, TypeOK, FsTypeOK, Pcs, EntryDue, ToInstall
  <2>2. IdentityTruthful'
    BY <1>20 DEF PowerLoss, Stop, IdentityTruthful, TypeOK, FsTypeOK, IdentityLast,
           Delivered, Published, Exists, Managed, Planned, WorkDone, PassesDone,
           EntryDue, Installing, ToInstall, Preserved
  <2>3. Planned'
    BY <1>20 DEF PowerLoss, Stop, Planned, TypeOK, FsTypeOK, Installing, Delivered,
           Exists, Preserved, Managed, EntryDue, ToInstall
  <2>4. WorkDone'
    BY <1>20 DEF PowerLoss, Stop, WorkDone, TypeOK, FsTypeOK, Installing, Delivered,
           Preserved, Exists, EntryDue, ToInstall, Managed
  <2>5. PassesDone'
    BY <1>20 DEF PowerLoss, Stop, PassesDone, TypeOK, FsTypeOK, WorkDone, Installing,
           EntryDue, ToInstall, Planned
  <2>6. EntryDue'
    BY <1>20 DEF PowerLoss, Stop, EntryDue, TypeOK, FsTypeOK, ToInstall, Installing
  <2>7. IdentityLast'
    BY <1>20 DEF PowerLoss, Stop, IdentityLast, TypeOK, FsTypeOK, Installing, EntryDue,
           ToInstall
  <2> QED
    BY <2>1, <2>2, <2>3, <2>4, <2>5, <2>6, <2>7
<1>21. CASE UNCHANGED vars
  BY <1>21 DEF vars, TypeOK, FsTypeOK, IdentityTruthful, Planned, WorkDone, PassesDone,
           EntryDue, IdentityLast, Installing, Published, Delivered, Exists, Managed, Preserved,
           ToInstall
<1> QED
  BY <1>1, <1>2, <1>3, <1>4, <1>5, <1>6, <1>7, <1>8, <1>9, <1>10, <1>11, <1>12,
     <1>13, <1>14, <1>15, <1>16, <1>17, <1>18, <1>19, <1>20, <1>21 DEF Next, Step

\* InstallInv is an invariant of the installer.
LEMMA InstallInvariant == Spec => []InstallInv
BY InstallInvInit, InstallInvNext, PTL DEF Spec

(***************************************************************************)
(* The installer's state keeps its types: the passes stay in 0..3 and only *)
(* files of the manifest are planned, installed or deleted.                *)
(***************************************************************************)
THEOREM InstallTypeCorrect == Spec => []TypeOK
<1>1. InstallInv => TypeOK
  BY DEF InstallInv
<1> QED
  BY <1>1, InstallInvariant, PTL

(***************************************************************************)
(* While BMX-BUILD.json names the release of the last attempt, all of that *)
(* release's files are in place and its signed deletions are gone.         *)
(***************************************************************************)
THEOREM IdentityIsTruthful == Spec => []IdentityTruthful
<1>1. InstallInv => IdentityTruthful
  BY DEF InstallInv
<1> QED
  BY <1>1, InstallInvariant, PTL

(***************************************************************************)
(* A path other than the temporary file's never holds a partial file.      *)
(***************************************************************************)
THEOREM FilesAreWhole == Spec => []WholeFiles
<1>1. Init => WholeFiles
  <2> SUFFICES ASSUME Init, NEW p \in Paths
               PROVE  fs[p] # Partial
    BY DEF WholeFiles
  <2>1. CASE p \in Files(0)
    BY <2>1, ManifestFacts DEF Init
  <2>2. CASE p \notin Files(0)
    BY <2>2, ManifestFacts DEF Init
  <2> QED
    BY <2>1, <2>2
<1>2. ASSUME InstallInv, WholeFiles, [Next]_vars
      PROVE  WholeFiles'
  <2> USE <1>2, ManifestFacts DEF WholeFiles, InstallInv, Missing, Partial
  <2>1. ASSUME NEW r \in Releases, NEW agreement \in BOOLEAN, Install(r, agreement)
      PROVE  WholeFiles'
    BY <2>1 DEF Install, InstallStarts, Eligible, NoActions, TypeOK, FsTypeOK, EntryDue, ToInstall
  <2>2. ASSUME NEW f \in Paths, UserEdits(f)
      PROVE  WholeFiles'
    BY <2>2 DEF UserEdits, Exists, Managed, TypeOK, FsTypeOK, EntryDue, ToInstall
  <2>3. ASSUME NEW f \in Paths, HashTarget(f)
      PROVE  WholeFiles'
    BY <2>3 DEF HashTarget, ActionOf, Preserved, Exists, TypeOK, FsTypeOK, EntryDue,
           ToInstall
  <2>4. ASSUME NEW f \in Paths, BeginEntry(f)
      PROVE  WholeFiles'
    BY <2>4 DEF BeginEntry, ToInstall, TypeOK, FsTypeOK, EntryDue
  <2>5. ASSUME NEW f \in Paths, BeginEntryFails(f)
      PROVE  WholeFiles'
    BY <2>5 DEF BeginEntryFails, Removed, ToInstall, TypeOK, FsTypeOK, EntryDue
  <2>6. ASSUME NEW f \in Paths, RemoveSignedFile(f)
      PROVE  WholeFiles'
    BY <2>6 DEF RemoveSignedFile, RemoveFileOk, Removed, TypeOK, FsTypeOK, EntryDue,
           ToInstall
  <2>7. ASSUME NEW f \in Paths, RemoveSignedFileFails(f)
      PROVE  WholeFiles'
    BY <2>7 DEF RemoveSignedFileFails, RemoveFileFails, Removed, Exists, Stop, TypeOK,
           FsTypeOK, EntryDue, ToInstall
  <2>8. CASE HashStops
    BY <2>8 DEF HashStops, Stop, TypeOK, FsTypeOK, EntryDue, ToInstall
  <2>9. CASE Prepare
    BY <2>9 DEF Prepare, RemoveFileOk, Removed, TypeOK, FsTypeOK, EntryDue, ToInstall
  <2>10. CASE PrepareFails
    BY <2>10 DEF PrepareFails, RemoveFileOk, Removed, RemoveFileFails, Exists, Stop,
           TypeOK, FsTypeOK, EntryDue, ToInstall
  <2>11. CASE CommitEntrySync
    BY <2>11 DEF CommitEntrySync, SyncOk, TypeOK, FsTypeOK, EntryDue, ToInstall
  <2>12. CASE CommitEntrySyncFails
    BY <2>12 DEF CommitEntrySyncFails, SyncOk, TypeOK, FsTypeOK, EntryDue, ToInstall
  <2>13. CASE RenameUnlink
    BY <2>13 DEF RenameUnlink, Removed, TypeOK, FsTypeOK, EntryDue, ToInstall
  <2>14. CASE RenameEntry
    BY <2>14 DEF RenameEntry, Moved, Exists, TypeOK, FsTypeOK, EntryDue, ToInstall
  <2>15. CASE RenameFailsEntry
    BY <2>15 DEF RenameFailsEntry, Moved, Exists, Removed, TypeOK, FsTypeOK, EntryDue,
           ToInstall
  <2>16. CASE FailedCleanup
    BY <2>16 DEF FailedCleanup, Stop, RemoveFileOk, Removed, RemoveFileFails, Exists, TypeOK,
           FsTypeOK, EntryDue, ToInstall
  <2>17. CASE NextPass
    BY <2>17 DEF NextPass, PassDone, ToInstall, TypeOK, FsTypeOK, EntryDue
  <2>18. CASE DeletionsDone
    BY <2>18 DEF DeletionsDone, TypeOK, FsTypeOK, EntryDue, ToInstall
  <2>19. CASE Committed
    BY <2>19 DEF Committed, RemoveFileOk, Removed, RemoveFileFails, Exists, Stop,
           PassDone, ToInstall, TypeOK, FsTypeOK, EntryDue
  <2>20. CASE PowerLoss
    BY <2>20 DEF PowerLoss, Stop, TypeOK, FsTypeOK, EntryDue, ToInstall
  <2>21. CASE UNCHANGED vars
    BY <2>21 DEF vars
  <2> QED
    BY <2>1, <2>2, <2>3, <2>4, <2>5, <2>6, <2>7, <2>8, <2>9, <2>10, <2>11, <2>12,
       <2>13, <2>14, <2>15, <2>16, <2>17, <2>18, <2>19, <2>20, <2>21 DEF Next, Step
<1> QED
  BY <1>1, <1>2, InstallInvariant, PTL DEF Spec

(***************************************************************************)
(* A signed deletion disappears only when every replacement, kernel and    *)
(* template of the release has been published.                             *)
(***************************************************************************)
THEOREM DeletionsFollowFiles == Spec => DeletionsAfterFiles
<1>1. ASSUME InstallInv, [Next]_vars
      PROVE  [\A p \in Deletions[rel] :
                Exists(p) /\ fs'[p] = Missing
                  => \A f \in Files(rel) \ {Build} : Delivered(f)]_vars
  <2> SUFFICES ASSUME Next, NEW p \in Deletions[rel], Exists(p), fs'[p] = Missing
               PROVE  \A f \in Files(rel) \ {Build} : Delivered(f)
    BY <1>1
  <2>0. rel \in Releases /\ fs \in [Paths -> Contents \cup {Missing, Partial}] /\ p \in Paths
        /\ p # Tmp /\ p \notin Files(rel)
    BY <1>1, ManifestFacts DEF InstallInv, TypeOK, FsTypeOK
  <2>1. pc = "Delete"
    <3>1. ASSUME NEW r \in Releases, NEW agreement \in BOOLEAN, Install(r, agreement)
         PROVE  pc = "Delete"
      BY <1>1, <3>1, <2>0, ManifestFacts DEF Install, InstallStarts, Eligible, NoActions, Exists, InstallInv, EntryDue, ToInstall
    <3>2. ASSUME NEW g \in Paths, UserEdits(g)
         PROVE  pc = "Delete"
      BY <1>1, <3>2, <2>0, ManifestFacts DEF UserEdits, Exists, Managed, InstallInv, EntryDue, ToInstall
    <3>3. ASSUME NEW g \in Paths, HashTarget(g)
         PROVE  pc = "Delete"
      BY <1>1, <3>3, <2>0, ManifestFacts DEF HashTarget, ActionOf, Preserved, Exists, InstallInv, EntryDue,
             ToInstall
    <3>4. ASSUME NEW g \in Paths, BeginEntry(g)
         PROVE  pc = "Delete"
      BY <1>1, <3>4, <2>0, ManifestFacts DEF BeginEntry, ToInstall, Exists, InstallInv, EntryDue
    <3>5. ASSUME NEW g \in Paths, BeginEntryFails(g)
         PROVE  pc = "Delete"
      BY <1>1, <3>5, <2>0, ManifestFacts DEF BeginEntryFails, Removed, ToInstall, Exists, InstallInv, EntryDue
    <3>6. ASSUME NEW g \in Paths, RemoveSignedFile(g)
         PROVE  pc = "Delete"
      BY <1>1, <3>6, <2>0, ManifestFacts DEF RemoveSignedFile, RemoveFileOk, Removed, Exists, InstallInv, EntryDue,
             ToInstall
    <3>7. ASSUME NEW g \in Paths, RemoveSignedFileFails(g)
         PROVE  pc = "Delete"
      BY <1>1, <3>7, <2>0, ManifestFacts DEF RemoveSignedFileFails, RemoveFileFails, Removed, Exists, Stop,
             InstallInv, EntryDue, ToInstall
    <3>8. CASE HashStops
      BY <1>1, <3>8, <2>0, ManifestFacts DEF HashStops, Stop, Exists, InstallInv, EntryDue, ToInstall
    <3>9. CASE Prepare
      BY <1>1, <3>9, <2>0, ManifestFacts DEF Prepare, RemoveFileOk, Removed, Exists, InstallInv, EntryDue, ToInstall
    <3>10. CASE PrepareFails
      BY <1>1, <3>10, <2>0, ManifestFacts DEF PrepareFails, RemoveFileOk, Removed, RemoveFileFails, Exists, Stop,
             InstallInv, EntryDue, ToInstall
    <3>11. CASE CommitEntrySync
      BY <1>1, <3>11, <2>0, ManifestFacts DEF CommitEntrySync, SyncOk, Exists, InstallInv, EntryDue, ToInstall
    <3>12. CASE CommitEntrySyncFails
      BY <1>1, <3>12, <2>0, ManifestFacts DEF CommitEntrySyncFails, SyncOk, Exists, InstallInv, EntryDue, ToInstall
    <3>13. CASE RenameUnlink
      BY <1>1, <3>13, <2>0, ManifestFacts DEF RenameUnlink, Removed, Exists, InstallInv, EntryDue, ToInstall
    <3>14. CASE RenameEntry
      BY <1>1, <3>14, <2>0, ManifestFacts DEF RenameEntry, Moved, Exists, InstallInv, EntryDue, ToInstall
    <3>15. CASE RenameFailsEntry
      BY <1>1, <3>15, <2>0, ManifestFacts DEF RenameFailsEntry, Moved, Exists, Removed, InstallInv, EntryDue,
             ToInstall
    <3>16. CASE FailedCleanup
      BY <1>1, <3>16, <2>0, ManifestFacts DEF FailedCleanup, Stop, RemoveFileOk, Removed, RemoveFileFails, Exists,
             InstallInv, EntryDue, ToInstall
    <3>17. CASE NextPass
      BY <1>1, <3>17, <2>0, ManifestFacts DEF NextPass, PassDone, ToInstall, Exists, InstallInv, EntryDue
    <3>18. CASE DeletionsDone
      BY <1>1, <3>18, <2>0, ManifestFacts DEF DeletionsDone, Exists, InstallInv, EntryDue, ToInstall
    <3>19. CASE Committed
      BY <1>1, <3>19, <2>0, ManifestFacts DEF Committed, RemoveFileOk, Removed, RemoveFileFails, Exists, Stop,
             PassDone, ToInstall, InstallInv, EntryDue
    <3>20. CASE PowerLoss
      BY <1>1, <3>20, <2>0, ManifestFacts DEF PowerLoss, Stop, Exists, InstallInv, EntryDue, ToInstall
    <3> QED
      BY <3>1, <3>2, <3>3, <3>4, <3>5, <3>6, <3>7, <3>8, <3>9, <3>10, <3>11, <3>12,
         <3>13, <3>14, <3>15, <3>16, <3>17, <3>18, <3>19, <3>20 DEF Next, Step
  <2> QED
    BY <1>1, <2>1, ManifestFacts
       DEF InstallInv, PassesDone, WorkDone, Planned, Installing, TypeOK, Delivered
<1> QED
  BY <1>1, InstallInvariant, PTL DEF Spec, DeletionsAfterFiles

(***************************************************************************)
(* An installation never changes an existing file that the policies leave  *)
(* to the user.                                                            *)
(***************************************************************************)
THEOREM UserFilesAreKept == Spec => UserFilesKept
<1>1. ASSUME InstallInv, [Next]_vars
      PROVE  [\A f \in Paths \ {Tmp} :
                pc # "Idle" /\ Preserved(f) /\ f \in Files(rel) /\ Exists(f)
                  => fs'[f] = fs[f]]_vars
  <2> SUFFICES ASSUME Next, NEW f \in Paths \ {Tmp},
                      pc # "Idle", Preserved(f), f \in Files(rel), Exists(f)
               PROVE  fs'[f] = fs[f]
    BY <1>1
  <2>0. rel \in Releases /\ fs \in [Paths -> Contents \cup {Missing, Partial}]
        /\ f \notin Deletions[rel]
    BY <1>1, ManifestFacts DEF InstallInv, TypeOK, FsTypeOK
  <2>1. pc \in {"Extract", "Synced", "Unlinked"} => f # entry
    BY <1>1, ManifestFacts DEF InstallInv, EntryDue, ToInstall, Planned, Installing
  <2> QED
    <3>1. ASSUME NEW r \in Releases, NEW agreement \in BOOLEAN, Install(r, agreement)
         PROVE  fs'[f] = fs[f]
      BY <1>1, <3>1, <2>0, <2>1, ManifestFacts DEF Install, InstallStarts, Eligible, NoActions
    <3>2. ASSUME NEW g \in Paths, UserEdits(g)
         PROVE  fs'[f] = fs[f]
      BY <1>1, <3>2, <2>0, <2>1, ManifestFacts DEF UserEdits, Exists, Managed
    <3>3. ASSUME NEW g \in Paths, HashTarget(g)
         PROVE  fs'[f] = fs[f]
      BY <1>1, <3>3, <2>0, <2>1, ManifestFacts DEF HashTarget, ActionOf, Preserved, Exists
    <3>4. ASSUME NEW g \in Paths, BeginEntry(g)
         PROVE  fs'[f] = fs[f]
      BY <1>1, <3>4, <2>0, <2>1, ManifestFacts DEF BeginEntry, ToInstall
    <3>5. ASSUME NEW g \in Paths, BeginEntryFails(g)
         PROVE  fs'[f] = fs[f]
      BY <1>1, <3>5, <2>0, <2>1, ManifestFacts DEF BeginEntryFails, Removed, ToInstall
    <3>6. ASSUME NEW g \in Paths, RemoveSignedFile(g)
         PROVE  fs'[f] = fs[f]
      BY <1>1, <3>6, <2>0, <2>1, ManifestFacts DEF RemoveSignedFile, RemoveFileOk, Removed
    <3>7. ASSUME NEW g \in Paths, RemoveSignedFileFails(g)
         PROVE  fs'[f] = fs[f]
      BY <1>1, <3>7, <2>0, <2>1, ManifestFacts DEF RemoveSignedFileFails, RemoveFileFails, Removed, Exists, Stop
    <3>8. CASE HashStops
      BY <1>1, <3>8, <2>0, <2>1, ManifestFacts DEF HashStops, Stop
    <3>9. CASE Prepare
      BY <1>1, <3>9, <2>0, <2>1, ManifestFacts DEF Prepare, RemoveFileOk, Removed
    <3>10. CASE PrepareFails
      BY <1>1, <3>10, <2>0, <2>1, ManifestFacts DEF PrepareFails, RemoveFileOk, Removed, RemoveFileFails, Exists, Stop
    <3>11. CASE CommitEntrySync
      BY <1>1, <3>11, <2>0, <2>1, ManifestFacts DEF CommitEntrySync, SyncOk
    <3>12. CASE CommitEntrySyncFails
      BY <1>1, <3>12, <2>0, <2>1, ManifestFacts DEF CommitEntrySyncFails, SyncOk
    <3>13. CASE RenameUnlink
      BY <1>1, <3>13, <2>0, <2>1, ManifestFacts DEF RenameUnlink, Removed
    <3>14. CASE RenameEntry
      BY <1>1, <3>14, <2>0, <2>1, ManifestFacts DEF RenameEntry, Moved, Exists
    <3>15. CASE RenameFailsEntry
      BY <1>1, <3>15, <2>0, <2>1, ManifestFacts DEF RenameFailsEntry, Moved, Exists, Removed
    <3>16. CASE FailedCleanup
      BY <1>1, <3>16, <2>0, <2>1, ManifestFacts DEF FailedCleanup, Stop, RemoveFileOk, Removed, RemoveFileFails, Exists
    <3>17. CASE NextPass
      BY <1>1, <3>17, <2>0, <2>1, ManifestFacts DEF NextPass, PassDone, ToInstall
    <3>18. CASE DeletionsDone
      BY <1>1, <3>18, <2>0, <2>1, ManifestFacts DEF DeletionsDone
    <3>19. CASE Committed
      BY <1>1, <3>19, <2>0, <2>1, ManifestFacts DEF Committed, RemoveFileOk, Removed, RemoveFileFails, Exists, Stop,
             PassDone, ToInstall
    <3>20. CASE PowerLoss
      BY <1>1, <3>20, <2>0, <2>1, ManifestFacts DEF PowerLoss, Stop
    <3> QED
      BY <3>1, <3>2, <3>3, <3>4, <3>5, <3>6, <3>7, <3>8, <3>9, <3>10, <3>11, <3>12,
         <3>13, <3>14, <3>15, <3>16, <3>17, <3>18, <3>19, <3>20 DEF Next, Step
<1> QED
  BY <1>1, InstallInvariant, PTL DEF Spec, UserFilesKept

\* CardTruthful: the release the card names is on it, in whole files, for every
\* manifest, failure, power loss and retry.
THEOREM CardIsTruthful == Spec => []CardTruthful
<1>1. CardTruthful <=> IdentityTruthful /\ WholeFiles
  BY DEF CardTruthful
<1> QED
  BY <1>1, IdentityIsTruthful, FilesAreWhole, PTL

\* NothingTakenEarly: neither signed deletions nor the user's files.
THEOREM NothingIsTakenEarly == Spec => NothingTakenEarly
<1>1. NothingTakenEarly <=> DeletionsAfterFiles /\ UserFilesKept
  BY DEF NothingTakenEarly
<1> QED
  BY <1>1, DeletionsFollowFiles, UserFilesAreKept, PTL

-----------------------------------------------------------------------------
(* The service. *)

\* The installer runs only inside its operation.
InstallerCalled == svc # "Install" => pc = "Idle"

\* What is on offer, or on its way, is newer than what is installed.
OfferEligible ==
  svc \in {"Menu", "Download", "Finish", "Open"} /\ offer # NoRelease => Eligible(offer)

OperationOffer == svc \in {"Download", "Finish", "Open", "Install"} => offer # NoRelease

\* The consent is the one the user saw, and a reset has his agreement.
ConsentSeen ==
  /\ consent # None => consent = shown
  /\ svc \in {"Download", "Finish", "Open", "Install"}
       => consent # None /\ (ResetRequired => agreed)
  /\ pc # "Idle" /\ reset => ResetRequired

\* What the operations find that do not install.
OperationsStart ==
  /\ svc \in {"Check", "DeviceCode", "Token"} => offer = NoRelease /\ consent = None /\ ~token
  /\ svc \in {"Check", "DraftCheck"} => consent = None /\ pending = NoRelease
  /\ pending # NoRelease => consent = None

ReleasesOnly == offer \in Releases /\ pending \in Releases /\ ticket \in Releases

ServiceInv ==
  /\ InstallerCalled /\ OfferEligible /\ OperationOffer /\ ConsentSeen
  /\ ArchiveVerified /\ AuthorizationEnds /\ OperationsStart /\ ReleasesOnly

USE DEF NoRelease, NoFile, Damaged, None, memory, files, history, serviceVars, updateVars

\* The numbers that are not releases, and the paths the service relies on.
LEMMA ServiceFacts ==
  /\ \A r \in Releases : r # NoFile /\ r # Damaged
  /\ NoFile # Damaged /\ Drafts \subseteq Releases
  /\ ConfigPath \in Paths /\ ConfigPath # Build /\ ConfigPath # Tmp
  /\ Pass[ConfigPath] = 2 /\ \A r \in Releases : ConfigPath \in Files(r)
BY UpdateInstallerAssumption, UpdateServiceAssumption, ManifestFacts

LEMMA ServiceInvInit == UpdateInit => ServiceInv
BY ManifestFacts DEF UpdateInit, Init, ServiceInv, InstallerCalled, OfferEligible,
       Eligible, OperationOffer, ConsentSeen, ResetRequired,
       ArchiveVerified, AuthorizationEnds, OperationsStart, ReleasesOnly

\* A step of the installer is a step of its specification; it leaves the
\* release alone, and the reset as it is while it runs.
LEMMA InstallerKeeps ==
  ASSUME InstallerRuns
  PROVE  /\ Next /\ svc = "Install" /\ pc # "Idle" /\ UNCHANGED serviceVars
         /\ UNCHANGED rel /\ (pc' = "Idle" \/ UNCHANGED reset)
<1>1. svc = "Install" /\ pc # "Idle" /\ UNCHANGED serviceVars
  BY DEF InstallerRuns
<1>2. Next
  BY DEF InstallerRuns, Next
<1>3. UNCHANGED rel /\ (pc' = "Idle" \/ UNCHANGED reset)
  <2>1. ASSUME NEW f \in Paths, Step(f) PROVE UNCHANGED rel /\ (pc' = "Idle" \/ UNCHANGED reset)
    BY <2>1 DEF Step, UserEdits, HashTarget, BeginEntry, BeginEntryFails,
           RemoveSignedFile,
           RemoveSignedFileFails, Stop
  <2>2. CASE \/ HashStops \/ Prepare \/ PrepareFails \/ CommitEntrySync \/ CommitEntrySyncFails
             \/ RenameUnlink \/ RenameEntry \/ RenameFailsEntry \/ FailedCleanup
             \/ NextPass \/ DeletionsDone \/ Committed
    BY <2>2 DEF HashStops, Prepare, PrepareFails, CommitEntrySync, CommitEntrySyncFails,
           RenameUnlink, RenameEntry, RenameFailsEntry, FailedCleanup, NextPass,
           DeletionsDone, Committed, Stop
  <2> QED
    BY <2>1, <2>2 DEF InstallerRuns
<1> QED
  BY <1>1, <1>2, <1>3

\* Nobody but the installer writes BMX-BUILD.json.
LEMMA EditsSpareBuild ==
  ASSUME NEW f \in Paths, UserEdits(f), FsTypeOK
  PROVE  fs'[Build] = fs[Build]
BY ManifestFacts DEF UserEdits, Managed, FsTypeOK

LEMMA ServiceInvNext == ServiceInv /\ FsTypeOK /\ [UpdateNext]_updateVars => ServiceInv'
<1> SUFFICES ASSUME ServiceInv, FsTypeOK, [UpdateNext]_updateVars PROVE ServiceInv'
  OBVIOUS
<1> USE ServiceFacts, ManifestFacts DEF ServiceInv
<1>1. CASE CheckForUpdate
  <2>1. InstallerCalled'
    BY <1>1 DEF CheckForUpdate, ClearOffer, ClearDraftAuthorization, InstallerCalled, vars
  <2>2. OfferEligible'
    BY <1>1 DEF CheckForUpdate, ClearOffer, ClearDraftAuthorization, OfferEligible,
           Eligible, InstallerCalled, OperationOffer, OperationsStart, vars
  <2>3. OperationOffer'
    BY <1>1 DEF CheckForUpdate, ClearOffer, ClearDraftAuthorization, OperationOffer,
           OperationsStart, vars
  <2>4. ConsentSeen'
    BY <1>1 DEF CheckForUpdate, ClearOffer, ClearDraftAuthorization, ConsentSeen,
           ResetRequired, OperationsStart, InstallerCalled, vars
  <2>5. ArchiveVerified'
    BY <1>1 DEF CheckForUpdate, ClearOffer, ClearDraftAuthorization, ArchiveVerified,
           ReleasesOnly, InstallerCalled, vars
  <2>6. AuthorizationEnds'
    BY <1>1 DEF CheckForUpdate, ClearOffer, ClearDraftAuthorization, AuthorizationEnds,
           OperationsStart, OperationOffer, ReleasesOnly, Eligible, vars
  <2>7. OperationsStart'
    BY <1>1 DEF CheckForUpdate, ClearOffer, ClearDraftAuthorization, OperationsStart,
           AuthorizationEnds, vars
  <2>8. ReleasesOnly'
    BY <1>1 DEF CheckForUpdate, ClearOffer, ClearDraftAuthorization, ReleasesOnly, vars
  <2> QED
    BY <2>1, <2>2, <2>3, <2>4, <2>5, <2>6, <2>7, <2>8
<1>2. CASE CancelPendingUpdate
  <2>1. InstallerCalled'
    BY <1>2 DEF CancelPendingUpdate, ClearOffer, ClearDraftAuthorization, InstallerCalled,
           vars
  <2>2. OfferEligible'
    BY <1>2 DEF CancelPendingUpdate, ClearOffer, ClearDraftAuthorization, OfferEligible,
           Eligible, InstallerCalled, OperationOffer, OperationsStart, vars
  <2>3. OperationOffer'
    BY <1>2 DEF CancelPendingUpdate, ClearOffer, ClearDraftAuthorization, OperationOffer,
           OperationsStart, vars
  <2>4. ConsentSeen'
    BY <1>2 DEF CancelPendingUpdate, ClearOffer, ClearDraftAuthorization, ConsentSeen,
           ResetRequired, OperationsStart, InstallerCalled, vars
  <2>5. ArchiveVerified'
    BY <1>2 DEF CancelPendingUpdate, ClearOffer, ClearDraftAuthorization, ArchiveVerified,
           ReleasesOnly, InstallerCalled, vars
  <2>6. AuthorizationEnds'
    BY <1>2 DEF CancelPendingUpdate, ClearOffer, ClearDraftAuthorization,
           AuthorizationEnds, OperationsStart, OperationOffer, ReleasesOnly, Eligible,
           vars
  <2>7. OperationsStart'
    BY <1>2 DEF CancelPendingUpdate, ClearOffer, ClearDraftAuthorization, OperationsStart,
           AuthorizationEnds, vars
  <2>8. ReleasesOnly'
    BY <1>2 DEF CancelPendingUpdate, ClearOffer, ClearDraftAuthorization, ReleasesOnly,
           vars
  <2> QED
    BY <2>1, <2>2, <2>3, <2>4, <2>5, <2>6, <2>7, <2>8
<1>3. CASE DraftChecked
  <2>1. InstallerCalled'
    BY <1>3 DEF DraftChecked, AcceptOffer, NoOffer, EvaluateReleaseCandidate, ClearOffer,
           ClearDraftAuthorization, InstallerCalled, vars
  <2>2. OfferEligible'
    BY <1>3 DEF DraftChecked, AcceptOffer, NoOffer, EvaluateReleaseCandidate, ClearOffer,
           ClearDraftAuthorization, OfferEligible, Eligible, InstallerCalled,
           OperationOffer, OperationsStart, vars
  <2>3. OperationOffer'
    BY <1>3 DEF DraftChecked, AcceptOffer, NoOffer, EvaluateReleaseCandidate, ClearOffer,
           ClearDraftAuthorization, OperationOffer, OperationsStart, vars
  <2>4. ConsentSeen'
    BY <1>3 DEF DraftChecked, AcceptOffer, NoOffer, EvaluateReleaseCandidate, ClearOffer,
           ClearDraftAuthorization, ConsentSeen, ResetRequired, OperationsStart,
           InstallerCalled, vars
  <2>5. ArchiveVerified'
    BY <1>3 DEF DraftChecked, AcceptOffer, NoOffer, EvaluateReleaseCandidate, ClearOffer,
           ClearDraftAuthorization, ArchiveVerified, ReleasesOnly, InstallerCalled, vars
  <2>6. AuthorizationEnds'
    BY <1>3 DEF DraftChecked, AcceptOffer, NoOffer, EvaluateReleaseCandidate, ClearOffer,
           ClearDraftAuthorization, AuthorizationEnds, OperationsStart, OperationOffer,
           ReleasesOnly, Eligible, vars
  <2>7. OperationsStart'
    BY <1>3 DEF DraftChecked, AcceptOffer, NoOffer, EvaluateReleaseCandidate, ClearOffer,
           ClearDraftAuthorization, OperationsStart, AuthorizationEnds, vars
  <2>8. ReleasesOnly'
    BY <1>3 DEF DraftChecked, AcceptOffer, NoOffer, EvaluateReleaseCandidate, ClearOffer,
           ClearDraftAuthorization, ReleasesOnly, vars
  <2> QED
    BY <2>1, <2>2, <2>3, <2>4, <2>5, <2>6, <2>7, <2>8
<1>4. ASSUME NEW r \in Releases, CheckAnswered(r) PROVE ServiceInv'
  <2>1. InstallerCalled'
    BY <1>4 DEF CheckAnswered, AcceptOffer, NoOffer, EvaluateReleaseCandidate, ClearOffer,
           ClearDraftAuthorization, InstallerCalled, vars
  <2>2. OfferEligible'
    BY <1>4 DEF CheckAnswered, AcceptOffer, NoOffer, EvaluateReleaseCandidate, ClearOffer,
           ClearDraftAuthorization, OfferEligible, Eligible, InstallerCalled,
           OperationOffer, OperationsStart, vars
  <2>3. OperationOffer'
    BY <1>4 DEF CheckAnswered, AcceptOffer, NoOffer, EvaluateReleaseCandidate, ClearOffer,
           ClearDraftAuthorization, OperationOffer, OperationsStart, vars
  <2>4. ConsentSeen'
    BY <1>4 DEF CheckAnswered, AcceptOffer, NoOffer, EvaluateReleaseCandidate, ClearOffer,
           ClearDraftAuthorization, ConsentSeen, ResetRequired, OperationsStart,
           InstallerCalled, vars
  <2>5. ArchiveVerified'
    BY <1>4 DEF CheckAnswered, AcceptOffer, NoOffer, EvaluateReleaseCandidate, ClearOffer,
           ClearDraftAuthorization, ArchiveVerified, ReleasesOnly, InstallerCalled, vars
  <2>6. AuthorizationEnds'
    BY <1>4 DEF CheckAnswered, AcceptOffer, NoOffer, EvaluateReleaseCandidate, ClearOffer,
           ClearDraftAuthorization, AuthorizationEnds, OperationsStart, OperationOffer,
           ReleasesOnly, Eligible, vars
  <2>7. OperationsStart'
    BY <1>4 DEF CheckAnswered, AcceptOffer, NoOffer, EvaluateReleaseCandidate, ClearOffer,
           ClearDraftAuthorization, OperationsStart, AuthorizationEnds, vars
  <2>8. ReleasesOnly'
    BY <1>4 DEF CheckAnswered, AcceptOffer, NoOffer, EvaluateReleaseCandidate, ClearOffer,
           ClearDraftAuthorization, ReleasesOnly, vars
  <2> QED
    BY <2>1, <2>2, <2>3, <2>4, <2>5, <2>6, <2>7, <2>8
<1>5. CASE BeginPreparedDraftTest
  <2>1. InstallerCalled'
    BY <1>5 DEF BeginPreparedDraftTest, ClearOffer, InstallerCalled, vars
  <2>2. OfferEligible'
    BY <1>5 DEF BeginPreparedDraftTest, ClearOffer, OfferEligible, Eligible,
           InstallerCalled, OperationOffer, OperationsStart, vars
  <2>3. OperationOffer'
    BY <1>5 DEF BeginPreparedDraftTest, ClearOffer, OperationOffer, OperationsStart, vars
  <2>4. ConsentSeen'
    BY <1>5 DEF BeginPreparedDraftTest, ClearOffer, ConsentSeen, ResetRequired,
           OperationsStart, InstallerCalled, vars
  <2>5. ArchiveVerified'
    BY <1>5 DEF BeginPreparedDraftTest, ClearOffer, ArchiveVerified, ReleasesOnly,
           InstallerCalled, vars
  <2>6. AuthorizationEnds'
    BY <1>5 DEF BeginPreparedDraftTest, ClearOffer, AuthorizationEnds, OperationsStart,
           OperationOffer, ReleasesOnly, Eligible, vars
  <2>7. OperationsStart'
    BY <1>5 DEF BeginPreparedDraftTest, ClearOffer, OperationsStart, AuthorizationEnds,
           vars
  <2>8. ReleasesOnly'
    BY <1>5 DEF BeginPreparedDraftTest, ClearOffer, ReleasesOnly, vars
  <2> QED
    BY <2>1, <2>2, <2>3, <2>4, <2>5, <2>6, <2>7, <2>8
<1>6. CASE RequestGitHubDeviceCode
  <2>1. InstallerCalled'
    BY <1>6 DEF RequestGitHubDeviceCode, ClearDraftAuthorization, InstallerCalled, vars
  <2>2. OfferEligible'
    BY <1>6 DEF RequestGitHubDeviceCode, ClearDraftAuthorization, OfferEligible, Eligible,
           InstallerCalled, OperationOffer, OperationsStart, vars
  <2>3. OperationOffer'
    BY <1>6 DEF RequestGitHubDeviceCode, ClearDraftAuthorization, OperationOffer,
           OperationsStart, vars
  <2>4. ConsentSeen'
    BY <1>6 DEF RequestGitHubDeviceCode, ClearDraftAuthorization, ConsentSeen,
           ResetRequired, OperationsStart, InstallerCalled, vars
  <2>5. ArchiveVerified'
    BY <1>6 DEF RequestGitHubDeviceCode, ClearDraftAuthorization, ArchiveVerified,
           ReleasesOnly, InstallerCalled, vars
  <2>6. AuthorizationEnds'
    BY <1>6 DEF RequestGitHubDeviceCode, ClearDraftAuthorization, AuthorizationEnds,
           OperationsStart, OperationOffer, ReleasesOnly, Eligible, vars
  <2>7. OperationsStart'
    BY <1>6 DEF RequestGitHubDeviceCode, ClearDraftAuthorization, OperationsStart,
           AuthorizationEnds, vars
  <2>8. ReleasesOnly'
    BY <1>6 DEF RequestGitHubDeviceCode, ClearDraftAuthorization, ReleasesOnly, vars
  <2> QED
    BY <2>1, <2>2, <2>3, <2>4, <2>5, <2>6, <2>7, <2>8
<1>7. CASE CompletePreparedDraftTest
  <2>1. InstallerCalled'
    BY <1>7 DEF CompletePreparedDraftTest, ClearDraftAuthorization, InstallerCalled, vars
  <2>2. OfferEligible'
    BY <1>7 DEF CompletePreparedDraftTest, ClearDraftAuthorization, OfferEligible,
           Eligible, InstallerCalled, OperationOffer, OperationsStart, vars
  <2>3. OperationOffer'
    BY <1>7 DEF CompletePreparedDraftTest, ClearDraftAuthorization, OperationOffer,
           OperationsStart, vars
  <2>4. ConsentSeen'
    BY <1>7 DEF CompletePreparedDraftTest, ClearDraftAuthorization, ConsentSeen,
           ResetRequired, OperationsStart, InstallerCalled, vars
  <2>5. ArchiveVerified'
    BY <1>7 DEF CompletePreparedDraftTest, ClearDraftAuthorization, ArchiveVerified,
           ReleasesOnly, InstallerCalled, vars
  <2>6. AuthorizationEnds'
    BY <1>7 DEF CompletePreparedDraftTest, ClearDraftAuthorization, AuthorizationEnds,
           OperationsStart, OperationOffer, ReleasesOnly, Eligible, vars
  <2>7. OperationsStart'
    BY <1>7 DEF CompletePreparedDraftTest, ClearDraftAuthorization, OperationsStart,
           AuthorizationEnds, vars
  <2>8. ReleasesOnly'
    BY <1>7 DEF CompletePreparedDraftTest, ClearDraftAuthorization, ReleasesOnly, vars
  <2> QED
    BY <2>1, <2>2, <2>3, <2>4, <2>5, <2>6, <2>7, <2>8
<1>8. CASE ExchangeGitHubDeviceCode
  <2>1. InstallerCalled'
    BY <1>8 DEF ExchangeGitHubDeviceCode, ClearDraftAuthorization, InstallerCalled, vars
  <2>2. OfferEligible'
    BY <1>8 DEF ExchangeGitHubDeviceCode, ClearDraftAuthorization, OfferEligible,
           Eligible, InstallerCalled, OperationOffer, OperationsStart, vars
  <2>3. OperationOffer'
    BY <1>8 DEF ExchangeGitHubDeviceCode, ClearDraftAuthorization, OperationOffer,
           OperationsStart, vars
  <2>4. ConsentSeen'
    BY <1>8 DEF ExchangeGitHubDeviceCode, ClearDraftAuthorization, ConsentSeen,
           ResetRequired, OperationsStart, InstallerCalled, vars
  <2>5. ArchiveVerified'
    BY <1>8 DEF ExchangeGitHubDeviceCode, ClearDraftAuthorization, ArchiveVerified,
           ReleasesOnly, InstallerCalled, vars
  <2>6. AuthorizationEnds'
    BY <1>8 DEF ExchangeGitHubDeviceCode, ClearDraftAuthorization, AuthorizationEnds,
           OperationsStart, OperationOffer, ReleasesOnly, Eligible, vars
  <2>7. OperationsStart'
    BY <1>8 DEF ExchangeGitHubDeviceCode, ClearDraftAuthorization, OperationsStart,
           AuthorizationEnds, vars
  <2>8. ReleasesOnly'
    BY <1>8 DEF ExchangeGitHubDeviceCode, ClearDraftAuthorization, ReleasesOnly, vars
  <2> QED
    BY <2>1, <2>2, <2>3, <2>4, <2>5, <2>6, <2>7, <2>8
<1>9. CASE InstallRefused
  <2>1. InstallerCalled'
    BY <1>9 DEF InstallRefused, ClearDraftAuthorization, InstallerCalled, vars
  <2>2. OfferEligible'
    BY <1>9 DEF InstallRefused, ClearDraftAuthorization, OfferEligible, Eligible,
           InstallerCalled, OperationOffer, OperationsStart, vars
  <2>3. OperationOffer'
    BY <1>9 DEF InstallRefused, ClearDraftAuthorization, OperationOffer, OperationsStart,
           vars
  <2>4. ConsentSeen'
    BY <1>9 DEF InstallRefused, ClearDraftAuthorization, ConsentSeen, ResetRequired,
           OperationsStart, InstallerCalled, vars
  <2>5. ArchiveVerified'
    BY <1>9 DEF InstallRefused, ClearDraftAuthorization, ArchiveVerified, ReleasesOnly,
           InstallerCalled, vars
  <2>6. AuthorizationEnds'
    BY <1>9 DEF InstallRefused, ClearDraftAuthorization, AuthorizationEnds,
           OperationsStart, OperationOffer, ReleasesOnly, Eligible, vars
  <2>7. OperationsStart'
    BY <1>9 DEF InstallRefused, ClearDraftAuthorization, OperationsStart,
           AuthorizationEnds, vars
  <2>8. ReleasesOnly'
    BY <1>9 DEF InstallRefused, ClearDraftAuthorization, ReleasesOnly, vars
  <2> QED
    BY <2>1, <2>2, <2>3, <2>4, <2>5, <2>6, <2>7, <2>8
<1>10. CASE InstallAbandoned
  <2>1. InstallerCalled'
    BY <1>10 DEF InstallAbandoned, Offered, InstallEnds, ClearOffer,
           ClearDraftAuthorization, InstallerCalled, vars
  <2>2. OfferEligible'
    BY <1>10 DEF InstallAbandoned, Offered, InstallEnds, ClearOffer,
           ClearDraftAuthorization, OfferEligible, Eligible, InstallerCalled,
           OperationOffer, OperationsStart, vars
  <2>3. OperationOffer'
    BY <1>10 DEF InstallAbandoned, Offered, InstallEnds, ClearOffer,
           ClearDraftAuthorization, OperationOffer, OperationsStart, vars
  <2>4. ConsentSeen'
    BY <1>10 DEF InstallAbandoned, Offered, InstallEnds, ClearOffer,
           ClearDraftAuthorization, ConsentSeen, ResetRequired, OperationsStart,
           InstallerCalled, vars
  <2>5. ArchiveVerified'
    BY <1>10 DEF InstallAbandoned, Offered, InstallEnds, ClearOffer,
           ClearDraftAuthorization, ArchiveVerified, ReleasesOnly, InstallerCalled, vars
  <2>6. AuthorizationEnds'
    BY <1>10 DEF InstallAbandoned, Offered, InstallEnds, ClearOffer,
           ClearDraftAuthorization, AuthorizationEnds, OperationsStart, OperationOffer,
           ReleasesOnly, Eligible, vars
  <2>7. OperationsStart'
    BY <1>10 DEF InstallAbandoned, Offered, InstallEnds, ClearOffer,
           ClearDraftAuthorization, OperationsStart, AuthorizationEnds, vars
  <2>8. ReleasesOnly'
    BY <1>10 DEF InstallAbandoned, Offered, InstallEnds, ClearOffer,
           ClearDraftAuthorization, ReleasesOnly, vars
  <2> QED
    BY <2>1, <2>2, <2>3, <2>4, <2>5, <2>6, <2>7, <2>8
<1>11. ASSUME NEW c \in BOOLEAN, DownloadArchive(c) PROVE ServiceInv'
  <2>1. InstallerCalled'
    BY <1>11 DEF DownloadArchive, Offered, InstallEnds, ClearOffer,
           ClearDraftAuthorization, ConfigurationConfirmed, MayInstall,
           EvaluateReleaseCandidate, InstallerCalled, vars
  <2>2. OfferEligible'
    BY <1>11 DEF DownloadArchive, Offered, InstallEnds, ClearOffer,
           ClearDraftAuthorization, ConfigurationConfirmed, MayInstall,
           EvaluateReleaseCandidate, OfferEligible, Eligible, InstallerCalled,
           OperationOffer, OperationsStart, vars
  <2>3. OperationOffer'
    BY <1>11 DEF DownloadArchive, Offered, InstallEnds, ClearOffer,
           ClearDraftAuthorization, ConfigurationConfirmed, MayInstall,
           EvaluateReleaseCandidate, OperationOffer, OperationsStart, vars
  <2>4. ConsentSeen'
    BY <1>11 DEF DownloadArchive, Offered, InstallEnds, ClearOffer,
           ClearDraftAuthorization, ConfigurationConfirmed, MayInstall,
           EvaluateReleaseCandidate, ConsentSeen, ResetRequired, OperationsStart,
           InstallerCalled, vars
  <2>5. ArchiveVerified'
    BY <1>11 DEF DownloadArchive, Offered, InstallEnds, ClearOffer,
           ClearDraftAuthorization, ConfigurationConfirmed, MayInstall,
           EvaluateReleaseCandidate, ArchiveVerified, ReleasesOnly, InstallerCalled, vars
  <2>6. AuthorizationEnds'
    BY <1>11 DEF DownloadArchive, Offered, InstallEnds, ClearOffer,
           ClearDraftAuthorization, ConfigurationConfirmed, MayInstall,
           EvaluateReleaseCandidate, AuthorizationEnds, OperationsStart, OperationOffer,
           ReleasesOnly, Eligible, vars
  <2>7. OperationsStart'
    BY <1>11 DEF DownloadArchive, Offered, InstallEnds, ClearOffer,
           ClearDraftAuthorization, ConfigurationConfirmed, MayInstall,
           EvaluateReleaseCandidate, OperationsStart, AuthorizationEnds, vars
  <2>8. ReleasesOnly'
    BY <1>11 DEF DownloadArchive, Offered, InstallEnds, ClearOffer,
           ClearDraftAuthorization, ConfigurationConfirmed, MayInstall,
           EvaluateReleaseCandidate, ReleasesOnly, vars
  <2> QED
    BY <2>1, <2>2, <2>3, <2>4, <2>5, <2>6, <2>7, <2>8
<1>12. CASE HttpsRequest
  <2>1. InstallerCalled'
    BY <1>12 DEF HttpsRequest, DownloadFails, InstallEnds, ClearOffer,
           ClearDraftAuthorization, InstallerCalled, vars
  <2>2. OfferEligible'
    BY <1>12 DEF HttpsRequest, DownloadFails, InstallEnds, ClearOffer,
           ClearDraftAuthorization, OfferEligible, Eligible, InstallerCalled,
           OperationOffer, OperationsStart, vars
  <2>3. OperationOffer'
    BY <1>12 DEF HttpsRequest, DownloadFails, InstallEnds, ClearOffer,
           ClearDraftAuthorization, OperationOffer, OperationsStart, vars
  <2>4. ConsentSeen'
    BY <1>12 DEF HttpsRequest, DownloadFails, InstallEnds, ClearOffer,
           ClearDraftAuthorization, ConsentSeen, ResetRequired, OperationsStart,
           InstallerCalled, vars
  <2>5. ArchiveVerified'
    BY <1>12 DEF HttpsRequest, DownloadFails, InstallEnds, ClearOffer,
           ClearDraftAuthorization, ArchiveVerified, ReleasesOnly, InstallerCalled, vars
  <2>6. AuthorizationEnds'
    BY <1>12 DEF HttpsRequest, DownloadFails, InstallEnds, ClearOffer,
           ClearDraftAuthorization, AuthorizationEnds, OperationsStart, OperationOffer,
           ReleasesOnly, Eligible, vars
  <2>7. OperationsStart'
    BY <1>12 DEF HttpsRequest, DownloadFails, InstallEnds, ClearOffer,
           ClearDraftAuthorization, OperationsStart, AuthorizationEnds, vars
  <2>8. ReleasesOnly'
    BY <1>12 DEF HttpsRequest, DownloadFails, InstallEnds, ClearOffer,
           ClearDraftAuthorization, ReleasesOnly, vars
  <2> QED
    BY <2>1, <2>2, <2>3, <2>4, <2>5, <2>6, <2>7, <2>8
<1>13. CASE FinishStreamingVerified
  <2>1. InstallerCalled'
    BY <1>13 DEF FinishStreamingVerified, DownloadFails, DigestMatches, InstallEnds,
           ClearOffer, ClearDraftAuthorization, InstallerCalled, vars
  <2>2. OfferEligible'
    BY <1>13 DEF FinishStreamingVerified, DownloadFails, DigestMatches, InstallEnds,
           ClearOffer, ClearDraftAuthorization, OfferEligible, Eligible, InstallerCalled,
           OperationOffer, OperationsStart, vars
  <2>3. OperationOffer'
    BY <1>13 DEF FinishStreamingVerified, DownloadFails, DigestMatches, InstallEnds,
           ClearOffer, ClearDraftAuthorization, OperationOffer, OperationsStart, vars
  <2>4. ConsentSeen'
    BY <1>13 DEF FinishStreamingVerified, DownloadFails, DigestMatches, InstallEnds,
           ClearOffer, ClearDraftAuthorization, ConsentSeen, ResetRequired,
           OperationsStart, InstallerCalled, vars
  <2>5. ArchiveVerified'
    BY <1>13 DEF FinishStreamingVerified, DownloadFails, DigestMatches, InstallEnds,
           ClearOffer, ClearDraftAuthorization, ArchiveVerified, ReleasesOnly,
           InstallerCalled, vars
  <2>6. AuthorizationEnds'
    BY <1>13 DEF FinishStreamingVerified, DownloadFails, DigestMatches, InstallEnds,
           ClearOffer, ClearDraftAuthorization, AuthorizationEnds, OperationsStart,
           OperationOffer, ReleasesOnly, Eligible, vars
  <2>7. OperationsStart'
    BY <1>13 DEF FinishStreamingVerified, DownloadFails, DigestMatches, InstallEnds,
           ClearOffer, ClearDraftAuthorization, OperationsStart, AuthorizationEnds, vars
  <2>8. ReleasesOnly'
    BY <1>13 DEF FinishStreamingVerified, DownloadFails, DigestMatches, InstallEnds,
           ClearOffer, ClearDraftAuthorization, ReleasesOnly, vars
  <2> QED
    BY <2>1, <2>2, <2>3, <2>4, <2>5, <2>6, <2>7, <2>8
<1>14. CASE OpenFails
  <2>1. InstallerCalled'
    BY <1>14 DEF OpenFails, InstallEnds, ClearOffer, ClearDraftAuthorization,
           InstallerCalled, vars
  <2>2. OfferEligible'
    BY <1>14 DEF OpenFails, InstallEnds, ClearOffer, ClearDraftAuthorization,
           OfferEligible, Eligible, InstallerCalled, OperationOffer, OperationsStart, vars
  <2>3. OperationOffer'
    BY <1>14 DEF OpenFails, InstallEnds, ClearOffer, ClearDraftAuthorization,
           OperationOffer, OperationsStart, vars
  <2>4. ConsentSeen'
    BY <1>14 DEF OpenFails, InstallEnds, ClearOffer, ClearDraftAuthorization, ConsentSeen,
           ResetRequired, OperationsStart, InstallerCalled, vars
  <2>5. ArchiveVerified'
    BY <1>14 DEF OpenFails, InstallEnds, ClearOffer, ClearDraftAuthorization,
           ArchiveVerified, ReleasesOnly, InstallerCalled, vars
  <2>6. AuthorizationEnds'
    BY <1>14 DEF OpenFails, InstallEnds, ClearOffer, ClearDraftAuthorization,
           AuthorizationEnds, OperationsStart, OperationOffer, ReleasesOnly, Eligible,
           vars
  <2>7. OperationsStart'
    BY <1>14 DEF OpenFails, InstallEnds, ClearOffer, ClearDraftAuthorization,
           OperationsStart, AuthorizationEnds, vars
  <2>8. ReleasesOnly'
    BY <1>14 DEF OpenFails, InstallEnds, ClearOffer, ClearDraftAuthorization,
           ReleasesOnly, vars
  <2> QED
    BY <2>1, <2>2, <2>3, <2>4, <2>5, <2>6, <2>7, <2>8
<1>15. CASE CallInstall
  <2>1. InstallerCalled'
    BY <1>15 DEF CallInstall, InstallStarts, InstallerCalled, vars
  <2>2. OfferEligible'
    BY <1>15 DEF CallInstall, InstallStarts, OfferEligible, Eligible, InstallerCalled,
           OperationOffer, OperationsStart, vars
  <2>3. OperationOffer'
    BY <1>15 DEF CallInstall, InstallStarts, OperationOffer, OperationsStart, vars
  <2>4. ConsentSeen'
    BY <1>15 DEF CallInstall, InstallStarts, ConsentSeen, ResetRequired, OperationsStart,
           InstallerCalled, vars
  <2>5. ArchiveVerified'
    BY <1>15 DEF CallInstall, InstallStarts, ArchiveVerified, ReleasesOnly,
           InstallerCalled, vars
  <2>6. AuthorizationEnds'
    BY <1>15 DEF CallInstall, InstallStarts, AuthorizationEnds, OperationsStart,
           OperationOffer, ReleasesOnly, Eligible, vars
  <2>7. OperationsStart'
    BY <1>15 DEF CallInstall, InstallStarts, OperationsStart, AuthorizationEnds, vars
  <2>8. ReleasesOnly'
    BY <1>15 DEF CallInstall, InstallStarts, ReleasesOnly, vars
  <2> QED
    BY <2>1, <2>2, <2>3, <2>4, <2>5, <2>6, <2>7, <2>8
<1>16. CASE InstallerRuns
  <2>1. InstallerCalled'
    BY <1>16, InstallerKeeps DEF InstallerCalled, vars
  <2>2. OfferEligible'
    BY <1>16, InstallerKeeps DEF OfferEligible, Eligible, InstallerCalled, OperationOffer,
           OperationsStart, vars
  <2>3. OperationOffer'
    BY <1>16, InstallerKeeps DEF OperationOffer, OperationsStart, vars
  <2>4. ConsentSeen'
    BY <1>16, InstallerKeeps DEF ConsentSeen, ResetRequired, OperationsStart,
           InstallerCalled, vars
  <2>5. ArchiveVerified'
    BY <1>16, InstallerKeeps DEF ArchiveVerified, ReleasesOnly, InstallerCalled, vars
  <2>6. AuthorizationEnds'
    BY <1>16, InstallerKeeps DEF AuthorizationEnds, OperationsStart, OperationOffer,
           ReleasesOnly, Eligible, vars
  <2>7. OperationsStart'
    BY <1>16, InstallerKeeps DEF OperationsStart, AuthorizationEnds, vars
  <2>8. ReleasesOnly'
    BY <1>16, InstallerKeeps DEF ReleasesOnly, vars
  <2> QED
    BY <2>1, <2>2, <2>3, <2>4, <2>5, <2>6, <2>7, <2>8
<1>17. CASE InstallReturned
  <2>1. InstallerCalled'
    BY <1>17 DEF InstallReturned, InstallEnds, ClearOffer, ClearDraftAuthorization,
           InstallerCalled, vars
  <2>2. OfferEligible'
    BY <1>17 DEF InstallReturned, InstallEnds, ClearOffer, ClearDraftAuthorization,
           OfferEligible, Eligible, InstallerCalled, OperationOffer, OperationsStart, vars
  <2>3. OperationOffer'
    BY <1>17 DEF InstallReturned, InstallEnds, ClearOffer, ClearDraftAuthorization,
           OperationOffer, OperationsStart, vars
  <2>4. ConsentSeen'
    BY <1>17 DEF InstallReturned, InstallEnds, ClearOffer, ClearDraftAuthorization,
           ConsentSeen, ResetRequired, OperationsStart, InstallerCalled, vars
  <2>5. ArchiveVerified'
    BY <1>17 DEF InstallReturned, InstallEnds, ClearOffer, ClearDraftAuthorization,
           ArchiveVerified, ReleasesOnly, InstallerCalled, vars
  <2>6. AuthorizationEnds'
    BY <1>17 DEF InstallReturned, InstallEnds, ClearOffer, ClearDraftAuthorization,
           AuthorizationEnds, OperationsStart, OperationOffer, ReleasesOnly, Eligible,
           vars
  <2>7. OperationsStart'
    BY <1>17 DEF InstallReturned, InstallEnds, ClearOffer, ClearDraftAuthorization,
           OperationsStart, AuthorizationEnds, vars
  <2>8. ReleasesOnly'
    BY <1>17 DEF InstallReturned, InstallEnds, ClearOffer, ClearDraftAuthorization,
           ReleasesOnly, vars
  <2> QED
    BY <2>1, <2>2, <2>3, <2>4, <2>5, <2>6, <2>7, <2>8
<1>18. ASSUME NEW f \in Paths, FileEdited(f) PROVE ServiceInv'
  <2>0. fs'[Build] = fs[Build]
    BY <1>18, EditsSpareBuild DEF FileEdited
  <2>1. InstallerCalled'
    BY <1>18, <2>0 DEF FileEdited, UserEdits, InstallerCalled, vars
  <2>2. OfferEligible'
    BY <1>18, <2>0 DEF FileEdited, UserEdits, OfferEligible, Eligible, InstallerCalled,
           OperationOffer, OperationsStart, vars
  <2>3. OperationOffer'
    BY <1>18, <2>0 DEF FileEdited, UserEdits, OperationOffer, OperationsStart, vars
  <2>4. ConsentSeen'
    BY <1>18, <2>0 DEF FileEdited, UserEdits, ConsentSeen, ResetRequired, OperationsStart,
           InstallerCalled, vars
  <2>5. ArchiveVerified'
    BY <1>18, <2>0 DEF FileEdited, UserEdits, ArchiveVerified, ReleasesOnly,
           InstallerCalled, vars
  <2>6. AuthorizationEnds'
    BY <1>18, <2>0 DEF FileEdited, UserEdits, AuthorizationEnds, OperationsStart,
           OperationOffer, ReleasesOnly, Eligible, vars
  <2>7. OperationsStart'
    BY <1>18, <2>0 DEF FileEdited, UserEdits, OperationsStart, AuthorizationEnds, vars
  <2>8. ReleasesOnly'
    BY <1>18, <2>0 DEF FileEdited, UserEdits, ReleasesOnly, vars
  <2> QED
    BY <2>1, <2>2, <2>3, <2>4, <2>5, <2>6, <2>7, <2>8
<1>19. ASSUME NEW t \in Drafts \cup {NoRelease}, TicketPlaced(t) PROVE ServiceInv'
  <2>1. InstallerCalled'
    BY <1>19 DEF TicketPlaced, InstallerCalled, vars
  <2>2. OfferEligible'
    BY <1>19 DEF TicketPlaced, OfferEligible, Eligible, InstallerCalled, OperationOffer,
           OperationsStart, vars
  <2>3. OperationOffer'
    BY <1>19 DEF TicketPlaced, OperationOffer, OperationsStart, vars
  <2>4. ConsentSeen'
    BY <1>19 DEF TicketPlaced, ConsentSeen, ResetRequired, OperationsStart,
           InstallerCalled, vars
  <2>5. ArchiveVerified'
    BY <1>19 DEF TicketPlaced, ArchiveVerified, ReleasesOnly, InstallerCalled, vars
  <2>6. AuthorizationEnds'
    BY <1>19 DEF TicketPlaced, AuthorizationEnds, OperationsStart, OperationOffer,
           ReleasesOnly, Eligible, vars
  <2>7. OperationsStart'
    BY <1>19 DEF TicketPlaced, OperationsStart, AuthorizationEnds, vars
  <2>8. ReleasesOnly'
    BY <1>19 DEF TicketPlaced, ReleasesOnly, vars
  <2> QED
    BY <2>1, <2>2, <2>3, <2>4, <2>5, <2>6, <2>7, <2>8
<1>20. CASE UpdatePowerLoss
  <2>1. InstallerCalled'
    BY <1>20 DEF UpdatePowerLoss, InstallEnds, ClearOffer, ClearDraftAuthorization,
           PowerLoss, Stop, InstallerCalled, vars
  <2>2. OfferEligible'
    BY <1>20 DEF UpdatePowerLoss, InstallEnds, ClearOffer, ClearDraftAuthorization,
           PowerLoss, Stop, OfferEligible, Eligible, InstallerCalled, OperationOffer,
           OperationsStart, vars
  <2>3. OperationOffer'
    BY <1>20 DEF UpdatePowerLoss, InstallEnds, ClearOffer, ClearDraftAuthorization,
           PowerLoss, Stop, OperationOffer, OperationsStart, vars
  <2>4. ConsentSeen'
    BY <1>20 DEF UpdatePowerLoss, InstallEnds, ClearOffer, ClearDraftAuthorization,
           PowerLoss, Stop, ConsentSeen, ResetRequired, OperationsStart, InstallerCalled,
           vars
  <2>5. ArchiveVerified'
    BY <1>20 DEF UpdatePowerLoss, InstallEnds, ClearOffer, ClearDraftAuthorization,
           PowerLoss, Stop, ArchiveVerified, ReleasesOnly, InstallerCalled, vars
  <2>6. AuthorizationEnds'
    BY <1>20 DEF UpdatePowerLoss, InstallEnds, ClearOffer, ClearDraftAuthorization,
           PowerLoss, Stop, AuthorizationEnds, OperationsStart, OperationOffer,
           ReleasesOnly, Eligible, vars
  <2>7. OperationsStart'
    BY <1>20 DEF UpdatePowerLoss, InstallEnds, ClearOffer, ClearDraftAuthorization,
           PowerLoss, Stop, OperationsStart, AuthorizationEnds, vars
  <2>8. ReleasesOnly'
    BY <1>20 DEF UpdatePowerLoss, InstallEnds, ClearOffer, ClearDraftAuthorization,
           PowerLoss, Stop, ReleasesOnly, vars
  <2> QED
    BY <2>1, <2>2, <2>3, <2>4, <2>5, <2>6, <2>7, <2>8
<1>21. CASE UNCHANGED updateVars
  BY <1>21 DEF vars, InstallerCalled, OfferEligible, Eligible, OperationOffer,
         ConsentSeen, ResetRequired, ArchiveVerified, AuthorizationEnds, OperationsStart,
         ReleasesOnly
<1> QED
  BY <1>1, <1>2, <1>3, <1>4, <1>5, <1>6, <1>7, <1>8, <1>9, <1>10, <1>11, <1>12, <1>13,
         <1>14, <1>15, <1>16, <1>17, <1>18, <1>19, <1>20, <1>21 DEF UpdateNext


\* The composed system refines the installer.
LEMMA ServiceStepRefines ==
  ASSUME ServiceInv, [UpdateNext]_updateVars
  PROVE  [Next]_vars
<1> USE DEF ServiceInv
<1>1. CASE CallInstall
  <2>1. Install(offer, ResetRequired)
    BY <1>1 DEF CallInstall, Install, InstallerCalled, OfferEligible, OperationOffer
  <2> QED
    BY <2>1 DEF Next, ReleasesOnly, ResetRequired
<1>2. CASE InstallerRuns
  BY <1>2, InstallerKeeps
<1>3. CASE UpdatePowerLoss
  BY <1>3 DEF UpdatePowerLoss, Next
<1>4. ASSUME NEW f \in Paths, FileEdited(f) PROVE [Next]_vars
  BY <1>4 DEF FileEdited, Next, Step
<1>5. CASE UNCHANGED updateVars
  BY <1>5
<1>6. CASE UNCHANGED vars
  BY <1>6
<1> QED
  BY <1>1, <1>2, <1>3, <1>4, <1>5, <1>6
     DEF UpdateNext, CheckForUpdate, CancelPendingUpdate, DraftChecked, CheckAnswered,
         BeginPreparedDraftTest, RequestGitHubDeviceCode, CompletePreparedDraftTest,
         ExchangeGitHubDeviceCode, InstallRefused, InstallAbandoned, DownloadArchive,
         HttpsRequest, FinishStreamingVerified, OpenFails, InstallReturned, TicketPlaced

\* The invariant of the service together with the installer's.
LEMMA ServiceInvariant == UpdateSpec => [](ServiceInv /\ InstallInv)
<1>1. UpdateInit => ServiceInv /\ InstallInv
  BY ServiceInvInit, InstallInvInit DEF UpdateInit
<1>2. ServiceInv /\ InstallInv /\ [UpdateNext]_updateVars => (ServiceInv /\ InstallInv)'
  <2> SUFFICES ASSUME ServiceInv, InstallInv, [UpdateNext]_updateVars
               PROVE  (ServiceInv /\ InstallInv)'
    OBVIOUS
  <2>1. [Next]_vars
    BY ServiceStepRefines
  <2>2. FsTypeOK
    BY DEF InstallInv, TypeOK
  <2> QED
    BY <2>1, <2>2, InstallInvNext, ServiceInvNext
<1> QED
  BY <1>1, <1>2, PTL DEF UpdateSpec

\* Every behaviour of the device is one of the installer's specification
\* (InstallCheckedUpdateFromMenu calls Install only for a newer release).
THEOREM ServiceImplementsInstaller == UpdateSpec => InstallerSpec
<1>1. UpdateInit => Init
  BY DEF UpdateInit
<1>2. ServiceInv /\ [UpdateNext]_updateVars => [Next]_vars
  BY ServiceStepRefines
<1> QED
  BY <1>1, <1>2, ServiceInvariant, PTL DEF UpdateSpec, InstallerSpec, Spec

\* BMX-UPD.ZIP is always a whole archive, and the one that is installed
\* (FatFsDownloadSink, DownloadArchive).
THEOREM ArchiveIsVerified == UpdateSpec => []ArchiveVerified
<1>1. ServiceInv => ArchiveVerified
  BY DEF ServiceInv
<1> QED
  BY <1>1, ServiceInvariant, PTL

\* The draft authorization ends with its purpose (DraftAuthorizationCleanup,
\* ClearDraftAuthorization).
THEOREM AuthorizationIsTemporary == UpdateSpec => []AuthorizationEnds
<1>1. ServiceInv => AuthorizationEnds
  BY DEF ServiceInv
<1> QED
  BY <1>1, ServiceInvariant, PTL

\* A download starts only over the configuration the user was shown
\* (the second AssessCurrentConfiguration of InstallCheckedUpdateFromMenu).
THEOREM ConsentStaysCurrent == UpdateSpec => ConsentIsCurrent
<1>1. ServiceInv /\ [UpdateNext]_updateVars
        => [svc = "Menu" /\ svc' = "Download" => fs[ConfigPath] = shown]_updateVars
  <2> SUFFICES ASSUME ServiceInv, [UpdateNext]_updateVars, svc = "Menu", svc' = "Download"
               PROVE  fs[ConfigPath] = shown
    OBVIOUS
  <2>1. PICK c \in BOOLEAN : DownloadArchive(c)
    BY InstallerKeeps DEF UpdateNext, CheckForUpdate, CancelPendingUpdate, DraftChecked,
           CheckAnswered,
       BeginPreparedDraftTest, RequestGitHubDeviceCode, CompletePreparedDraftTest,
       ExchangeGitHubDeviceCode, InstallRefused, InstallAbandoned, HttpsRequest,
       FinishStreamingVerified, OpenFails, CallInstall, InstallReturned, FileEdited,
       TicketPlaced, UpdatePowerLoss, InstallEnds
  <2> QED
    BY <2>1 DEF DownloadArchive, Offered, ConfigurationConfirmed, ServiceInv, ConsentSeen
<1> QED
  BY <1>1, ServiceInvariant, PTL DEF UpdateSpec, ConsentIsCurrent

\* An existing configuration is replaced only after a warning the user agreed
\* to (InstallPass, reset_required and destructive_reset_consent).
THEOREM ResetHasConsent == UpdateSpec => ResetConsented
<1>1. ServiceInv /\ InstallInv /\ [UpdateNext]_updateVars
      /\ [\A f \in Paths \ {Tmp} :
            pc # "Idle" /\ Preserved(f) /\ f \in Files(rel) /\ Exists(f)
              => fs'[f] = fs[f]]_vars
        => [pc # "Idle" /\ Exists(ConfigPath) /\ fs'[ConfigPath] # fs[ConfigPath]
              => agreed /\ offer = rel /\ shown \notin Accepts[rel]]_updateVars
  <2> SUFFICES ASSUME ServiceInv, InstallInv,
                      [\A f \in Paths \ {Tmp} :
                         pc # "Idle" /\ Preserved(f) /\ f \in Files(rel) /\ Exists(f)
                           => fs'[f] = fs[f]]_vars,
                      pc # "Idle", Exists(ConfigPath), fs'[ConfigPath] # fs[ConfigPath]
               PROVE  agreed /\ offer = rel /\ shown \notin Accepts[rel]
    OBVIOUS
  <2>1. ~Preserved(ConfigPath)
    BY ServiceFacts DEF vars, InstallInv, TypeOK
  <2>2. reset
    BY <2>1, ServiceFacts DEF Preserved
  <2> QED
    BY <2>2 DEF ServiceInv, InstallerCalled, ConsentSeen, ResetRequired, ArchiveVerified
<1> QED
  BY <1>1, ServiceInvariant, ServiceImplementsInstaller, UserFilesAreKept, PTL
     DEF UpdateSpec, ResetConsented, UserFilesKept, InstallerSpec

\* ConsentHonoured: what the user decided about the configuration is what is done.
THEOREM ConsentIsHonoured == UpdateSpec => ConsentHonoured
<1>1. ConsentHonoured <=> ConsentIsCurrent /\ ResetConsented
  BY DEF ConsentHonoured
<1> QED
  BY <1>1, ConsentStaysCurrent, ResetHasConsent, PTL
=============================================================================
