----------------------------- MODULE UpdateService -----------------------------
(***************************************************************************)
(* update_service.cpp over the installer: the offer of a release and the   *)
(* consent to it, the authorization of a prepared draft, the download of   *)
(* the archive (FatFsDownloadSink of fatfs_update_storage.cpp) and the     *)
(* installation.  An operation runs as a job of the network service and    *)
(* gives up the processor whenever it waits for the network; meanwhile the *)
(* HTTP server may write to the card, the configuration and the draft      *)
(* ticket included.  The power may go at every step.  When a device code   *)
(* expires and when it may be polled are choices of the environment.       *)
(* A field of g_state has its "no" value when the code no longer reads it. *)
(***************************************************************************)
EXTENDS UpdateInstaller

CONSTANTS ConfigPath,  \* the configuration the assessment reads
          Accepts,     \* the configurations a release takes as they are
          Drafts       \* the releases with a signed draft ticket

\* The configuration is a template that every release ships.
ASSUME UpdateServiceAssumption ==
  /\ ConfigPath \in Paths \ {Build, Tmp}
  /\ Accepts \in [Releases -> SUBSET (Contents \cup {Missing})]
  /\ Drafts \subseteq Releases \ {0}
  /\ Pass[ConfigPath] = 2 /\ \A r \in Releases : ConfigPath \in Files(r)

NoRelease == 0  \* the factory image is never offered
NoFile == -2    \* of part and archive: no such file,
Damaged == -1   \* or not the archive of a release; else its release

VARIABLES svc,      \* where the running operation is, "Menu" for none
          offer,    \* download.offer, NoRelease without offer_valid in the menu
          draft,    \* acquisition_mode is PreparedDraft
          consent,  \* config_consent_sha256: the configuration it hashes, or
                    \* None without config_consent_valid
          pending,  \* device_authorization_pending: the draft_ticket it is for
          token,    \* an access_token is there
          part, archive, \* BMX-UPD.ZIP.part and BMX-UPD.ZIP
          ticket,   \* BMX-DRAFT-TEST.json with its signature
          shown,    \* history: the configuration of the offer the user saw,
          agreed    \* and his answer to its reset warning

memory == <<offer, draft, consent, pending, token>>
files == <<part, archive, ticket>>
history == <<shown, agreed>>
serviceVars == <<svc, memory, files, history>>
updateVars == <<vars, serviceVars>>

UpdateInit ==
  /\ Init
  /\ svc = "Menu" /\ offer = NoRelease /\ draft = FALSE /\ consent = None
  /\ pending = NoRelease /\ token = FALSE
  /\ part = NoFile /\ archive = NoFile /\ ticket = NoRelease
  /\ shown = None /\ agreed = FALSE

\* offer_valid and config_consent_valid become false.
ClearOffer ==
  /\ offer' = NoRelease /\ draft' = FALSE /\ consent' = None
  /\ shown' = None /\ agreed' = FALSE

ClearDraftAuthorization == token' = FALSE /\ pending' = NoRelease

\* A return from a download or an installation, with the cleanup object's work.
\* Mutant: the authorization stays.
InstallEndsHolding == svc' = "Menu" /\ ClearOffer /\ UNCHANGED <<token, pending>>

InstallEnds == svc' = "Menu" /\ ClearOffer /\ ClearDraftAuthorization

-----------------------------------------------------------------------------
(* The offer. *)

\* Mutant: the sequence of the release is not compared.
EvaluateReleaseCandidateAny(r) == \E q \in Releases : fs[Build] = Shipped[q][Build]

\* BMX-BUILD.json is valid and names an older release.
EvaluateReleaseCandidate(r) == Eligible(r)

\* The configuration is assessed and the volume large enough ...
AcceptOffer(r, d) ==
  /\ EvaluateReleaseCandidate(r)
  /\ svc' = "Menu" /\ offer' = r /\ draft' = d
  /\ consent' = fs[ConfigPath] /\ shown' = fs[ConfigPath]
  /\ UNCHANGED <<token, pending, agreed>>

\* ... or not, or there is nothing to offer.
NoOffer == svc' = "Menu" /\ ClearOffer /\ ClearDraftAuthorization

\* The old offer is gone before anything can fail.
CheckForUpdate ==
  /\ svc = "Menu"
  /\ ClearOffer /\ ClearDraftAuthorization
  /\ svc' \in {"Menu", "Check"}
  /\ UNCHANGED <<vars, files>>

\* CheckLatestRelease: GitHub's answer authenticates release r, or there is none.
CheckAnswered(r) ==
  /\ svc = "Check"
  /\ AcceptOffer(r, FALSE) \/ NoOffer
  /\ UNCHANGED <<vars, files>>

CancelPendingUpdate ==
  /\ svc = "Menu"
  /\ ClearOffer /\ ClearDraftAuthorization
  /\ UNCHANGED <<vars, svc, files>>

-----------------------------------------------------------------------------
(* A prepared draft: a device code for the ticket on the card, then a token. *)

\* It clears like CancelPendingUpdate when it cannot start.
BeginPreparedDraftTest ==
  /\ svc = "Menu" /\ ticket # NoRelease
  /\ ClearOffer
  /\ svc' = "DeviceCode" /\ pending' = ticket /\ token' = FALSE
  /\ UNCHANGED <<vars, files>>

RequestGitHubDeviceCode ==
  /\ svc = "DeviceCode" /\ svc' = "Menu"
  /\ UNCHANGED <<pending, token>> \/ ClearDraftAuthorization
  /\ UNCHANGED <<vars, offer, draft, consent, files, history>>

\* The network is there, the code has not expired and may be polled, and the
\* ticket on the card is still the same.
CompletePreparedDraftTest ==
  /\ svc = "Menu" /\ pending # NoRelease
  /\ \/ svc' = "Menu" /\ ClearDraftAuthorization
     \/ ticket = pending /\ svc' = "Token" /\ UNCHANGED <<token, pending>>
  /\ UNCHANGED <<vars, offer, draft, consent, files, history>>

\* Not authorized yet, refused, or a token.
ExchangeGitHubDeviceCode ==
  /\ svc = "Token"
  /\ \/ svc' = "Menu" /\ UNCHANGED <<token, pending, offer>>
     \/ svc' = "Menu" /\ ClearDraftAuthorization /\ UNCHANGED offer
     \/ svc' = "DraftCheck" /\ token' = TRUE /\ pending' = NoRelease /\ offer' = pending
  /\ UNCHANGED <<vars, draft, consent, files, history>>

\* CheckPreparedDraftRelease: the draft is the one of the ticket.
DraftChecked ==
  /\ svc = "DraftCheck"
  /\ AcceptOffer(offer, TRUE) \/ NoOffer
  /\ UNCHANGED <<vars, files>>

-----------------------------------------------------------------------------
(* InstallCheckedUpdateFromMenu: checks, DownloadArchive, Install, cleaning up. *)

Offered == svc = "Menu" /\ offer # NoRelease /\ consent # None

\* Nothing is pending, the network or the token is gone, or the reset has no
\* consent: what is on offer stays, a draft without its token.
InstallRefused ==
  /\ svc = "Menu"
  /\ ClearDraftAuthorization
  /\ UNCHANGED <<vars, svc, offer, draft, consent, files, history>>

\* The offer does not verify again, the configuration changed, the volume is full.
InstallAbandoned == Offered /\ InstallEnds /\ UNCHANGED <<vars, files>>

\* AssessCurrentConfiguration reads the card again.
ConfigurationConfirmed == consent = fs[ConfigPath]

ResetRequired == consent \notin Accepts[offer]

\* Mutant: the consent is not asked for.
MayInstallUnasked(destructiveResetConsent) == TRUE

MayInstall(destructiveResetConsent) == ResetRequired => destructiveResetConsent

\* DownloadArchive removes what an earlier attempt left, as far as it can, and
\* Start wants the final name free.
DownloadArchive(destructiveResetConsent) ==
  /\ Offered /\ (draft => token)
  /\ EvaluateReleaseCandidate(offer)
  /\ ConfigurationConfirmed /\ MayInstall(destructiveResetConsent)
  /\ archive' \in {NoFile, archive}
  /\ \/ /\ archive' = NoFile /\ part' = Damaged
        /\ svc' = "Download" /\ agreed' = destructiveResetConsent
        /\ UNCHANGED <<memory, shown>>
     \/ part' \in {NoFile, part} /\ InstallEnds
  /\ UNCHANGED <<vars, ticket>>

DownloadFails ==
  /\ InstallEnds
  /\ part' \in {NoFile, part} /\ archive' \in {NoFile, archive}

\* The transfer ends: all of it, something else of any length, or an error.
HttpsRequest ==
  /\ svc = "Download"
  /\ \/ /\ svc' = "Finish" /\ part' \in {offer, Damaged}
        /\ UNCHANGED <<archive, memory, history>>
     \/ DownloadFails
  /\ UNCHANGED <<vars, ticket>>

\* Mutant: the digest is not compared.
DigestMatchesAlways == TRUE

\* Size and digest of what was written are the signed ones.
DigestMatches == part = offer

FinishStreamingVerified ==
  /\ svc = "Finish"
  /\ \/ /\ DigestMatches /\ archive = NoFile
        /\ archive' = part /\ part' = NoFile
        /\ svc' = "Open"
        /\ UNCHANGED <<memory, history>>
     \/ DownloadFails
  /\ UNCHANGED <<vars, ticket>>

OpenFails ==
  /\ svc = "Open" /\ InstallEnds
  /\ archive' \in {NoFile, archive}
  /\ UNCHANGED <<vars, part, ticket>>

CallInstall ==
  /\ svc = "Open" /\ svc' = "Install"
  /\ InstallStarts(offer, ResetRequired)
  /\ UNCHANGED <<memory, files, history>>

\* The archive goes, and after a success the draft ticket, as far as they can.
InstallReturned ==
  /\ svc = "Install" /\ pc = "Idle"
  /\ InstallEnds
  /\ archive' \in {NoFile, archive}
  /\ IF status = "Ok" /\ archive' = NoFile /\ draft
       THEN ticket' \in {NoRelease, ticket} ELSE UNCHANGED ticket
  /\ UNCHANGED <<vars, part>>

-----------------------------------------------------------------------------
(* The others. *)

InstallerRuns ==
  /\ svc = "Install" /\ pc # "Idle"
  /\ \/ \E f \in Paths : Step(f)
     \/ HashStops \/ Prepare \/ PrepareFails
     \/ CommitEntrySync \/ CommitEntrySyncFails
     \/ RenameUnlink \/ RenameEntry \/ RenameFailsEntry \/ FailedCleanup
     \/ NextPass \/ DeletionsDone \/ Committed
  /\ UNCHANGED serviceVars

\* An upload, or the user, changes a file on the card.
FileEdited(f) == UserEdits(f) /\ UNCHANGED serviceVars

TicketPlaced(r) ==
  /\ ticket' = r
  /\ UNCHANGED <<vars, svc, memory, part, archive, history>>

\* The files stay, memory starts afresh.
UpdatePowerLoss ==
  /\ InstallEnds
  /\ IF pc = "Idle" THEN UNCHANGED vars ELSE PowerLoss
  /\ UNCHANGED files

UpdateNext ==
  \/ CheckForUpdate \/ CancelPendingUpdate \/ DraftChecked
  \/ \E r \in Releases : CheckAnswered(r)
  \/ BeginPreparedDraftTest \/ RequestGitHubDeviceCode
  \/ CompletePreparedDraftTest \/ ExchangeGitHubDeviceCode
  \/ InstallRefused \/ InstallAbandoned
  \/ \E c \in BOOLEAN : DownloadArchive(c)
  \/ HttpsRequest \/ FinishStreamingVerified \/ OpenFails \/ CallInstall
  \/ InstallerRuns \/ InstallReturned
  \/ \E f \in Paths : FileEdited(f)
  \/ \E r \in Drafts \cup {NoRelease} : TicketPlaced(r)
  \/ UpdatePowerLoss

UpdateSpec == UpdateInit /\ [][UpdateNext]_updateVars

-----------------------------------------------------------------------------
(* Properties. *)

ServiceTypeOK ==
  /\ svc \in {"Menu", "Check", "DeviceCode", "Token", "DraftCheck", "Download", "Finish",
              "Open", "Install"}
  /\ {offer, pending, ticket} \subseteq Releases
  /\ {draft, token, agreed} \subseteq BOOLEAN
  /\ {consent, shown} \subseteq Contents \cup {Missing, Partial, None}
  /\ {part, archive} \subseteq Releases \cup {NoFile, Damaged}

(***************************************************************************)
(* The composed system is a use of the installer as UpdateInstaller takes  *)
(* it: Install is called only over a BMX-BUILD.json that names an older    *)
(* release, never twice at once, and nothing else changes the release's    *)
(* files.  What is proved of the installer so holds of the device.         *)
(***************************************************************************)
InstallerSpec == Spec

(***************************************************************************)
(* No download starts over a configuration other than the user was shown   *)
(* the consequences for, whoever wrote to the card in between.             *)
(***************************************************************************)
ConsentIsCurrent ==
  [][svc = "Menu" /\ svc' = "Download" => fs[ConfigPath] = shown]_updateVars

(***************************************************************************)
(* The installer replaces an existing configuration only if the user was   *)
(* warned of it for this release, and agreed.                              *)
(***************************************************************************)
ResetConsented ==
  [][pc # "Idle" /\ Exists(ConfigPath) /\ fs'[ConfigPath] # fs[ConfigPath]
       => agreed /\ offer = rel /\ shown \notin Accepts[rel]]_updateVars

\* The user's decision about the configuration is the one that is carried out.
ConsentHonoured == ConsentIsCurrent /\ ResetConsented

(***************************************************************************)
(* Whatever was left by failures and power losses: the file under the      *)
(* final name is the whole archive of some release, and the installer      *)
(* only ever reads the one of the release it installs.                     *)
(***************************************************************************)
ArchiveVerified ==
  /\ archive # Damaged
  /\ svc \in {"Open", "Install"} => archive = offer
  /\ pc # "Idle" => rel = offer

(***************************************************************************)
(* The temporary authorization of a draft ends with its purpose: between   *)
(* operations there is a token only for a draft that is on offer, and no   *)
(* code is pending while anything is on offer.                             *)
(***************************************************************************)
AuthorizationEnds ==
  /\ svc = "Menu" /\ token => offer # NoRelease /\ draft
  /\ pending # NoRelease => ~token /\ offer = NoRelease
=============================================================================
