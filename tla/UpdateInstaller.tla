---------------------------- MODULE UpdateInstaller ----------------------------
(***************************************************************************)
(* simple_update_installer.cpp: the installation of a signed release over  *)
(* the running one, file by file and without a journal.  The files are     *)
(* hashed, the changed ones are extracted to a temporary file and moved in *)
(* place in passes, the signed deletions follow, and BMX-BUILD.json comes  *)
(* last.  Every file system call may fail and the power may go at any      *)
(* step; the user tries again from the menu.  The order of the files       *)
(* within a pass is the manifest's, so any order.                          *)
(***************************************************************************)
EXTENDS UpdateFileSystem

CONSTANTS Releases,    \* release sequence numbers; 0 is the factory image
          Shipped,     \* the files of a release and their contents
          Pass,        \* InstallPass of a path
          Preserve,    \* paths with the policy Preserve
          Deletions,   \* the signed deletions and replacements of a release
          UserContent  \* what the user writes into files of his own

Build == "BMX-BUILD.json"
Tmp == "BMX-UPD.TMP"
None == "none"

Files(r) == DOMAIN Shipped[r]

\* What Install validates of a manifest before it touches anything: no use of
\* the temporary path, one identity, no deletion of a shipped file.
ManifestValid(r) ==
  /\ Files(r) \subseteq Paths \ {Tmp} /\ Build \in Files(r)
  /\ Deletions[r] \subseteq Paths \ (Files(r) \cup {Tmp})

\* The releases are valid manifests, each with an identity of its own.
ASSUME UpdateInstallerAssumption ==
  /\ Releases \subseteq Nat /\ 0 \in Releases
  /\ Tmp \in Paths /\ Build \in Paths /\ Tmp # Build /\ None \notin Paths
  /\ UserContent \in Contents
  /\ Pass \in [Paths -> 0..3] /\ \A p \in Paths : Pass[p] = 3 <=> p = Build
  /\ Preserve \subseteq Paths \ {Build}
  /\ \A r \in Releases :
       /\ ManifestValid(r)
       /\ Shipped[r] \in [Files(r) -> Contents]
       /\ \A q \in Releases : Shipped[q][Build] = Shipped[r][Build] => q = r

VARIABLES pc,      \* where Install is
          rel,     \* the release of the last attempt
          reset,   \* reset_configuration
          action,  \* file_actions, for the files hashed so far
          pass,    \* the pass of the installation loop
          done,    \* the files installed by this attempt
          entry,   \* the file being extracted
          deleted, \* the signed deletions done by this attempt
          status

vars == <<fs, pc, rel, reset, action, pass, done, entry, deleted, status>>

Pcs == {"Idle", "Hash", "Install", "Extract", "Synced", "Unlinked", "Failed", "Delete"}

\* Files a user owns: never replaced when they exist.
Preserved(f) == f \in Preserve \/ (Pass[f] = 2 /\ ~reset)

\* Files a release defines in full.
Managed(f) == f \notin Preserve /\ Pass[f] # 2

NoActions == [f \in {} |-> "InstallFile"]

Init ==
  /\ fs = [p \in Paths |-> IF p \in Files(0) THEN Shipped[0][p] ELSE Missing]
  /\ pc = "Idle" /\ rel = 0 /\ reset = FALSE
  /\ action = NoActions /\ pass = 0 /\ done = {} /\ entry = None /\ deleted = {}
  /\ status = "None"

\* The user's own files change between attempts.
UserEdits(f) ==
  /\ pc = "Idle" /\ ~Managed(f) /\ f # Tmp /\ Exists(f)
  /\ fs' = [fs EXCEPT ![f] = UserContent]
  /\ UNCHANGED <<pc, rel, reset, action, pass, done, entry, deleted, status>>

-----------------------------------------------------------------------------
(* The check of the menu, and the hash phase. *)

\* Install is called: nothing of an earlier attempt is left in memory.
InstallStarts(r, consent) ==
  /\ pc' = "Hash" /\ rel' = r /\ reset' = consent
  /\ action' = NoActions /\ pass' = 0 /\ done' = {} /\ entry' = None /\ deleted' = {}
  /\ status' = "None"
  /\ UNCHANGED fs

\* The menu offers r only over a BMX-BUILD.json that names an older release.
Eligible(r) == \E q \in Releases : q < r /\ fs[Build] = Shipped[q][Build]

Install(r, consent) == pc = "Idle" /\ Eligible(r) /\ InstallStarts(r, consent)

\* Mutant: the policies of the manifest are not asked.
ActionOfNoPolicy(f) == IF fs[f] = Shipped[rel][f] THEN "KeepUnchanged" ELSE "InstallFile"

ActionOf(f) ==
  IF Preserved(f) /\ Exists(f) THEN "PreserveExisting"
  ELSE IF fs[f] = Shipped[rel][f] THEN "KeepUnchanged" ELSE "InstallFile"

HashTarget(f) ==
  /\ pc = "Hash" /\ f \in Files(rel) \ DOMAIN action
  /\ action' = [g \in DOMAIN action \cup {f} |->
                  IF g = f THEN ActionOf(f) ELSE action[g]]
  /\ UNCHANGED <<fs, pc, rel, reset, pass, done, entry, deleted, status>>

\* Install returns s, and its workspace is dead.
Stop(s) ==
  /\ pc' = "Idle" /\ status' = s /\ reset' = FALSE
  /\ action' = NoActions /\ pass' = 0 /\ done' = {} /\ entry' = None /\ deleted' = {}

HashStops ==
  /\ pc = "Hash"
  /\ Stop("Canceled") \/ Stop("Failed")
  /\ UNCHANGED <<fs, rel>>

\* Free space is enough, a temporary file of an earlier attempt goes, the
\* directories are there.
Prepare ==
  /\ pc = "Hash" /\ DOMAIN action = Files(rel)
  /\ RemoveFileOk(Tmp)
  /\ pc' = "Install"
  /\ UNCHANGED <<rel, reset, action, pass, done, entry, deleted, status>>

PrepareFails ==
  /\ pc = "Hash" /\ DOMAIN action = Files(rel)
  /\ RemoveFileFails(Tmp) \/ RemoveFileOk(Tmp)
  /\ Stop("Failed")
  /\ UNCHANGED rel

-----------------------------------------------------------------------------
(* The installation passes. *)

ToInstall(f) == f \in Files(rel) \ done /\ action[f] = "InstallFile" /\ Pass[f] = pass

\* SingleFileExtractSink::BeginEntry.
BeginEntry(f) ==
  /\ pc = "Install" /\ ToInstall(f)
  /\ fs' = [fs EXCEPT ![Tmp] = Partial]
  /\ entry' = f
  /\ pc' = "Extract"
  /\ UNCHANGED <<rel, reset, action, pass, done, deleted, status>>

\* The entry does not verify, or the temporary file cannot be made.
BeginEntryFails(f) ==
  /\ pc = "Install" /\ ToInstall(f)
  /\ UNCHANGED fs \/ Removed(Tmp) \/ fs' = [fs EXCEPT ![Tmp] = Partial]
  /\ pc' = "Failed"
  /\ UNCHANGED <<rel, reset, action, pass, done, entry, deleted, status>>

\* Write, Sync and Close of CommitEntry.
CommitEntrySync ==
  /\ pc = "Extract"
  /\ SyncOk(Tmp, Shipped[rel][entry])
  /\ pc' = "Synced"
  /\ UNCHANGED <<rel, reset, action, pass, done, entry, deleted, status>>

CommitEntrySyncFails ==
  /\ pc = "Extract"
  /\ UNCHANGED fs \/ SyncOk(Tmp, Shipped[rel][entry])
  /\ pc' = "Failed"
  /\ UNCHANGED <<rel, reset, action, pass, done, entry, deleted, status>>

\* Rename(tmp, path, true), its f_unlink ...
RenameUnlink ==
  /\ pc = "Synced"
  /\ Removed(entry)
  /\ pc' = "Unlinked"
  /\ UNCHANGED <<rel, reset, action, pass, done, entry, deleted, status>>

\* ... and its f_rename.
RenameEntry ==
  /\ pc = "Unlinked"
  /\ Moved(Tmp, entry)
  /\ done' = done \cup {entry} /\ entry' = None
  /\ pc' = "Install"
  /\ UNCHANGED <<rel, reset, action, pass, deleted, status>>

\* A Stat, the f_unlink or the f_rename fails, or only the check after them.
RenameFailsEntry ==
  /\ pc \in {"Synced", "Unlinked"}
  /\ \/ UNCHANGED fs
     \/ pc = "Synced" /\ Removed(entry)
     \/ pc = "Unlinked" /\ Moved(Tmp, entry)
  /\ pc' = "Failed"
  /\ UNCHANGED <<rel, reset, action, pass, done, entry, deleted, status>>

\* AbortEntry and Install remove the temporary file, if they can.
FailedCleanup ==
  /\ pc = "Failed"
  /\ RemoveFileOk(Tmp) \/ RemoveFileFails(Tmp)
  /\ Stop("Failed")
  /\ UNCHANGED rel

PassDone == pc = "Install" /\ \A f \in Files(rel) : ~ToInstall(f)

\* Other files, kernels, configuration templates, then the deletions.
NextPass ==
  /\ PassDone /\ pass < 3
  /\ IF pass = 2 THEN pc' = "Delete" /\ UNCHANGED pass
                 ELSE pass' = pass + 1 /\ UNCHANGED pc
  /\ UNCHANGED <<fs, rel, reset, action, done, entry, deleted, status>>

RemoveSignedFile(p) ==
  /\ pc = "Delete" /\ p \in Deletions[rel] \ deleted
  /\ RemoveFileOk(p)
  /\ deleted' = deleted \cup {p}
  /\ UNCHANGED <<pc, rel, reset, action, pass, done, entry, status>>

RemoveSignedFileFails(p) ==
  /\ pc = "Delete" /\ p \in Deletions[rel] \ deleted
  /\ RemoveFileFails(p)
  /\ Stop("Failed")
  /\ UNCHANGED rel

\* Mutant: BMX-BUILD.json does not wait for the deletions.
DeletionsDoneEarly ==
  /\ pc = "Delete"
  /\ pc' = "Install" /\ pass' = 3
  /\ UNCHANGED <<fs, rel, reset, action, done, entry, deleted, status>>

DeletionsDone ==
  /\ pc = "Delete" /\ Deletions[rel] \subseteq deleted
  /\ pc' = "Install" /\ pass' = 3
  /\ UNCHANGED <<fs, rel, reset, action, done, entry, deleted, status>>

Committed ==
  /\ PassDone /\ pass = 3
  /\ \/ RemoveFileOk(Tmp) /\ Stop("Ok")
     \/ RemoveFileFails(Tmp) /\ Stop("Failed")
  /\ UNCHANGED rel

PowerLoss ==
  /\ pc # "Idle"
  /\ Stop("None")
  /\ UNCHANGED <<fs, rel>>

-----------------------------------------------------------------------------

Step(f) ==
  \/ UserEdits(f) \/ HashTarget(f) \/ BeginEntry(f) \/ BeginEntryFails(f)
  \/ RemoveSignedFile(f) \/ RemoveSignedFileFails(f)

Next ==
  \/ \E r \in Releases, consent \in BOOLEAN : Install(r, consent)
  \/ \E f \in Paths : Step(f)
  \/ HashStops \/ Prepare \/ PrepareFails
  \/ CommitEntrySync \/ CommitEntrySyncFails
  \/ RenameUnlink \/ RenameEntry \/ RenameFailsEntry \/ FailedCleanup
  \/ NextPass \/ DeletionsDone \/ Committed \/ PowerLoss

Spec == Init /\ [][Next]_vars

-----------------------------------------------------------------------------
(* Properties. *)

TypeOK ==
  /\ FsTypeOK
  /\ pc \in Pcs
  /\ rel \in Releases /\ reset \in BOOLEAN
  /\ DOMAIN action \subseteq Files(rel)
  /\ \A f \in DOMAIN action :
       action[f] \in {"InstallFile", "KeepUnchanged", "PreserveExisting"}
  /\ pass \in 0..3 /\ done \subseteq Files(rel)
  /\ entry \in Files(rel) \cup {None}
  /\ deleted \subseteq Deletions[rel]
  /\ status \in {"None", "Ok", "Canceled", "Failed"}

\* A file of release rel is in place: its content, or for a user's file any.
Published(f) == Exists(f) /\ (Managed(f) => fs[f] = Shipped[rel][f])

\* As the running installation leaves it: also a template whose reset the
\* user agreed to.
Delivered(f) == Exists(f) /\ (~Preserved(f) => fs[f] = Shipped[rel][f])

(***************************************************************************)
(* BMX-BUILD.json tells the truth: while it names the release of the last  *)
(* attempt, every file of that release is in place and none of its signed  *)
(* deletions is left, whatever failed and however often it was retried.    *)
(***************************************************************************)
IdentityTruthful ==
  fs[Build] = Shipped[rel][Build]
    => /\ \A f \in Files(rel) : Published(f)
       /\ \A p \in Deletions[rel] : ~Exists(p)

(***************************************************************************)
(* No path but the temporary one ever holds half a file: an entry is moved *)
(* in place only after its data was synced.                                *)
(***************************************************************************)
WholeFiles == \A p \in Paths \ {Tmp} : fs[p] # Partial

\* What the card says of itself is so: the release it names is on it, in whole
\* files.
CardTruthful == IdentityTruthful /\ WholeFiles

(***************************************************************************)
(* "Signed deletions run only after replacement files, kernels, and any    *)
(* consented configuration templates have been published": a signed        *)
(* deletion disappears only when all of those are in place.                *)
(***************************************************************************)
DeletionsAfterFiles ==
  [][\A p \in Deletions[rel] :
       Exists(p) /\ fs'[p] = Missing
         => \A f \in Files(rel) \ {Build} : Delivered(f)]_vars

(***************************************************************************)
(* An installation never touches a file of the user's that exists: one     *)
(* with the policy Preserve, or a configuration without the consent to     *)
(* reset it.                                                               *)
(***************************************************************************)
UserFilesKept ==
  [][\A f \in Paths \ {Tmp} :
       pc # "Idle" /\ Preserved(f) /\ f \in Files(rel) /\ Exists(f)
         => fs'[f] = fs[f]]_vars

\* Nothing is taken from the card before its time: neither what a release
\* replaces nor what belongs to the user.
NothingTakenEarly == DeletionsAfterFiles /\ UserFilesKept

-----------------------------------------------------------------------------
(* The inductive invariant behind them. *)

Installing == pc \in {"Install", "Extract", "Synced", "Unlinked", "Delete"}

\* What the hash phase decided still holds.
Planned ==
  /\ pc \in {"Hash", "Install", "Extract", "Synced", "Unlinked", "Delete"}
       => \A f \in DOMAIN action :
            IF action[f] = "InstallFile" THEN Preserved(f) /\ f \notin done => ~Exists(f)
                                         ELSE Delivered(f)
  /\ Installing => DOMAIN action = Files(rel)

\* What this attempt installed is in place, and what it deleted is gone.
WorkDone ==
  /\ pc = "Hash" => pass = 0 /\ done = {} /\ deleted = {}
  /\ Installing => \A f \in done : Delivered(f)
  /\ Installing => \A p \in deleted : ~Exists(p)

\* Earlier passes are complete; the deletions come after all but the identity.
PassesDone ==
  /\ Installing => \A f \in done : Pass[f] <= pass
  /\ Installing => \A f \in Files(rel) :
                    Pass[f] < pass /\ action[f] = "InstallFile" => f \in done
  /\ pc = "Delete" => \A f \in Files(rel) :
                        Pass[f] < 3 /\ action[f] = "InstallFile" => f \in done
  /\ Installing /\ pass = 3 => Deletions[rel] \subseteq deleted

\* The entry being extracted is due, and the temporary file is its content.
EntryDue ==
  /\ pc \in {"Extract", "Synced", "Unlinked"} => entry # None /\ ToInstall(entry)
  /\ pc \in {"Synced", "Unlinked"} => fs[Tmp] = Shipped[rel][entry]

\* The identity of the release is not there before its turn.
IdentityLast ==
  (Installing \/ pc = "Hash") /\ Build \notin done => fs[Build] # Shipped[rel][Build]

InstallInv ==
  /\ TypeOK /\ IdentityTruthful /\ Planned /\ WorkDone /\ PassesDone /\ EntryDue
  /\ IdentityLast

-----------------------------------------------------------------------------
(***************************************************************************)
(* "BMX-BUILD.json is committed last so an interrupted update remains      *)
(* safely retryable": whenever no installation runs, the menu finds the    *)
(* BMX-BUILD.json it needs to offer one.                                   *)
(***************************************************************************)
Retryable == pc = "Idle" => Exists(Build)
=============================================================================
