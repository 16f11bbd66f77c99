------------------------------ MODULE NetworkJobs ------------------------------
(***************************************************************************)
(* network_service.cpp: the menu's update and Wi-Fi scan jobs.  A caller   *)
(* posts one under m_jobLock and polls it by token; the worker task takes  *)
(* it, works without the lock, reports progress and reads the cancel flag  *)
(* under it (JobProgressUi, UpdateForegroundProgress::Checkpoint), and     *)
(* completes it.  Every section under the lock is a step.  The menu is the *)
(* only caller today; the model has Callers of them, so that a submission  *)
(* also meets a job that is not its own.                                   *)
(***************************************************************************)
EXTENDS UpdateProgressMailbox, FiniteSets

CONSTANTS Callers,
          Operations,      \* UpdateServiceOperation; "Cancel" is the one to drop an offer
          Stage,           \* the first phase with MandatoryCompletion
          TokenMax,        \* the largest token (UINT32_MAX)
          MaxCheckpoints   \* checkpoints of one job (a bound)

ASSUME NetworkJobsAssumption ==
  TokenMax \in Nat \ {0} /\ MaxCheckpoints \in Nat \ {0} /\ Stage \in Phases

VARIABLES m_updateState, m_updateToken, m_updateOperation, m_updateCancelRequested,
          m_updateResult,
          m_scanState, m_scanToken,
          m_nextToken,
          wpc,               \* where the worker task is
          operation,         \* ProcessUpdateJob's copy of m_updateOperation
          phase,             \* UpdateForegroundProgress::phase_
          cancel_requested,  \* UpdateForegroundProgress::cancel_requested_
          checkpoints,       \* checkpoints of this job
          result,            \* what the operation returned
          cpc,               \* where each caller is
          token,             \* its token
          asked,             \* the operation it posted
          answer,            \* the result it got
          pressed,           \* did its user ask to cancel this job?
          shown              \* the transitions it has shown (a history variable)

updateVars == <<m_updateState, m_updateToken, m_updateOperation, m_updateCancelRequested,
                m_updateResult>>
scanVars == <<m_scanState, m_scanToken>>
workerVars == <<wpc, operation, phase, cancel_requested, checkpoints, result>>
callerVars == <<cpc, token, asked, answer, pressed, shown>>
jobsVars == <<mailboxVars, updateVars, scanVars, m_nextToken, workerVars, callerVars>>

NoOp == "none"
JobStates == {"Empty", "Posted", "Running", "Complete"}

\* The result of an operation: which one, and whether it stopped on a cancel.
Results == [op : Operations \cup {NoOp}, canceled : BOOLEAN]
NoResult == [op |-> NoOp, canceled |-> FALSE]

JobsInit ==
  /\ MailboxInit
  /\ m_updateState = "Empty" /\ m_updateToken = 0 /\ m_updateOperation = NoOp
  /\ m_updateCancelRequested = FALSE /\ m_updateResult = NoResult
  /\ m_scanState = "Empty" /\ m_scanToken = 0 /\ m_nextToken = 1
  /\ wpc = "Idle" /\ operation = NoOp /\ phase = 0 /\ cancel_requested = FALSE
  /\ checkpoints = 0 /\ result = NoResult
  /\ cpc = [c \in Callers |-> "Menu"] /\ token = [c \in Callers |-> 0]
  /\ asked = [c \in Callers |-> NoOp] /\ answer = [c \in Callers |-> NoResult]
  /\ pressed = [c \in Callers |-> FALSE] /\ shown = <<>>

-----------------------------------------------------------------------------
(* The callers: RunNetworkUpdateJob and emux_wifi_scan_aps. *)

\* ++m_nextToken, skipping 0.
NextToken == IF m_nextToken = TokenMax THEN 1 ELSE m_nextToken + 1

JobsEmpty == m_updateState = "Empty" /\ m_scanState = "Empty"

\* Mutant: a new job inherits the cancel flag of the last one.
CancelAtSubmitKept == m_updateCancelRequested

CancelAtSubmit == FALSE

SubmitUpdateJob(c, op) ==
  /\ cpc[c] = "Menu" /\ JobsEmpty
  /\ m_nextToken' = NextToken
  /\ m_updateToken' = NextToken /\ token' = [token EXCEPT ![c] = NextToken]
  /\ m_updateOperation' = op /\ asked' = [asked EXCEPT ![c] = op]
  /\ m_updateCancelRequested' = CancelAtSubmit
  /\ pressed' = [pressed EXCEPT ![c] = FALSE]
  /\ Reset /\ shown' = <<>>
  /\ m_updateResult' = NoResult /\ answer' = [answer EXCEPT ![c] = NoResult]
  /\ m_updateState' = "Posted"
  /\ cpc' = [cpc EXCEPT ![c] = "Update"]
  /\ UNCHANGED <<scanVars, workerVars>>

SubmitWifiScan(c) ==
  /\ cpc[c] = "Menu" /\ JobsEmpty
  /\ m_nextToken' = NextToken
  /\ m_scanToken' = NextToken /\ token' = [token EXCEPT ![c] = NextToken]
  /\ m_scanState' = "Posted"
  /\ cpc' = [cpc EXCEPT ![c] = "Scan"]
  /\ UNCHANGED <<mailboxVars, updateVars, workerVars, asked, answer, pressed, shown>>

\* token == m_updateToken and a job that is not Empty.
UpdateFound(c) == token[c] # 0 /\ token[c] = m_updateToken /\ m_updateState # "Empty"

\* The loop of RunNetworkUpdateJob looks for a cancel of every other operation.
MayPress(c) == asked[c] # "Cancel"

\* PollUpdateJob, a transition: shown before anything else; the user may ask
\* to cancel.
PollTransition(c) ==
  /\ cpc[c] = "Update" /\ UpdateFound(c)
  /\ PopTransition
  /\ shown' = Append(shown, transitions[head])
  /\ \/ UNCHANGED cpc
     \/ MayPress(c) /\ cpc' = [cpc EXCEPT ![c] = "Cancel"]
  /\ UNCHANGED <<updateVars, scanVars, m_nextToken, workerVars, token, asked, answer, pressed>>

\* PollUpdateJob, nothing new: only the user's wish to cancel matters.
PollPending(c) ==
  /\ cpc[c] = "Update" /\ UpdateFound(c)
  /\ count = 0 /\ m_updateState # "Complete" /\ MayPress(c)
  /\ cpc' = [cpc EXCEPT ![c] = "Cancel"]
  /\ UNCHANGED <<mailboxVars, updateVars, scanVars, m_nextToken, workerVars, token, asked,
                 answer, pressed, shown>>

\* PollUpdateJob, the end.
PollComplete(c) ==
  /\ cpc[c] = "Update" /\ UpdateFound(c)
  /\ count = 0 /\ m_updateState = "Complete"
  /\ answer' = [answer EXCEPT ![c] = m_updateResult]
  /\ m_updateState' = "Empty" /\ m_updateToken' = 0
  /\ cpc' = [cpc EXCEPT ![c] = "Menu"]
  /\ UNCHANGED <<mailboxVars, m_updateOperation, m_updateCancelRequested, m_updateResult,
                 scanVars, m_nextToken, workerVars, token, asked, pressed, shown>>

\* CancelUpdateJob, the lock taken again: the job may be complete by now.
CancelUpdateJob(c) ==
  /\ cpc[c] = "Cancel"
  /\ IF token[c] # 0 /\ token[c] = m_updateToken /\ m_updateState \in {"Posted", "Running"}
     THEN m_updateCancelRequested' = TRUE
     ELSE UNCHANGED m_updateCancelRequested
  /\ pressed' = [pressed EXCEPT ![c] = TRUE]
  /\ cpc' = [cpc EXCEPT ![c] = "Update"]
  /\ UNCHANGED <<mailboxVars, m_updateState, m_updateToken, m_updateOperation,
                 m_updateResult, scanVars, m_nextToken, workerVars, token, asked, answer,
                 shown>>

\* PollWifiScan, the end.
PollScanComplete(c) ==
  /\ cpc[c] = "Scan" /\ token[c] # 0 /\ token[c] = m_scanToken /\ m_scanState = "Complete"
  /\ m_scanState' = "Empty" /\ m_scanToken' = 0
  /\ cpc' = [cpc EXCEPT ![c] = "Menu"]
  /\ UNCHANGED <<mailboxVars, updateVars, m_nextToken, workerVars, token, asked, answer,
                 pressed, shown>>

-----------------------------------------------------------------------------
(* The worker task. *)

ProcessJobs ==
  /\ wpc = "Idle"
  /\ \/ /\ m_updateState = "Posted"
        /\ m_updateState' = "Running" /\ wpc' = "Begin" /\ UNCHANGED m_scanState
     \/ /\ m_updateState # "Posted" /\ m_scanState = "Posted"
        /\ m_scanState' = "Running" /\ wpc' = "Scan" /\ UNCHANGED m_updateState
  /\ UNCHANGED <<mailboxVars, m_updateToken, m_updateOperation, m_updateCancelRequested,
                 m_updateResult, m_scanToken, m_nextToken, operation, phase,
                 cancel_requested, checkpoints, result, callerVars>>

\* ProcessUpdateJob reads the job, then BeginExplicit starts at Discovery.
ProcessUpdateJob ==
  /\ wpc = "Begin"
  /\ operation' = m_updateOperation
  /\ phase' = 0 /\ cancel_requested' = FALSE /\ checkpoints' = 0
  /\ wpc' = "Present"
  /\ UNCHANGED <<mailboxVars, updateVars, scanVars, m_nextToken, result, callerVars>>

\* Checkpoint: Present ...
CheckpointPresent ==
  /\ wpc = "Present"
  /\ Present(phase)
  /\ checkpoints' = checkpoints + 1
  /\ wpc' = "ReadCancel"
  /\ UNCHANGED <<updateVars, scanVars, m_nextToken, operation, phase, cancel_requested,
                 result, callerVars>>

\* ... PumpAndReadCancel ...
CheckpointReadCancel ==
  /\ wpc = "ReadCancel"
  /\ cancel_requested' = (cancel_requested \/ m_updateCancelRequested)
  /\ wpc' = IF cancel_requested' THEN "PresentCancel" ELSE "Work"
  /\ UNCHANGED <<mailboxVars, updateVars, scanVars, m_nextToken, operation, phase,
                 checkpoints, result, callerVars>>

\* CancelAtCheckpoint, or MandatoryCompletion.
CheckpointStops == phase < Stage

\* ... and Present again when a cancel is pending; the operation stops at a
\* checkpoint that may be canceled.
CheckpointPresentCancel ==
  /\ wpc = "PresentCancel"
  /\ Present(phase)
  /\ IF CheckpointStops
     THEN wpc' = "Finish" /\ result' = [op |-> operation, canceled |-> TRUE]
     ELSE wpc' = "Work" /\ UNCHANGED result
  /\ UNCHANGED <<updateVars, scanVars, m_nextToken, operation, phase, cancel_requested,
                 checkpoints, callerVars>>

\* ExecuteNetworkServiceOperation goes on to its next checkpoint: the requests
\* and hashes before the installation come in any order, nothing after it does;
\* Cancel has no checkpoint of its own ...
OperationContinues ==
  /\ wpc = "Work" /\ operation # "Cancel" /\ checkpoints < MaxCheckpoints
  /\ \E p \in Phases : (p < Stage => phase < Stage) /\ phase' = p
  /\ wpc' = "Present"
  /\ UNCHANGED <<mailboxVars, updateVars, scanVars, m_nextToken, operation,
                 cancel_requested, checkpoints, result, callerVars>>

\* ... or returns.
OperationReturns ==
  /\ wpc = "Work"
  /\ result' = [op |-> operation, canceled |-> FALSE]
  /\ wpc' = "Finish"
  /\ UNCHANGED <<mailboxVars, updateVars, scanVars, m_nextToken, operation, phase,
                 cancel_requested, checkpoints, callerVars>>

UpdateComplete ==
  /\ wpc = "Finish"
  /\ m_updateResult' = result
  /\ m_updateState' = "Complete"
  /\ wpc' = "Idle"
  /\ UNCHANGED <<mailboxVars, m_updateToken, m_updateOperation, m_updateCancelRequested,
                 scanVars, m_nextToken, operation, phase, cancel_requested, checkpoints,
                 result, callerVars>>

\* Mutant: a scan that failed returns early and leaves the job running.
ProcessWifiScanQuiet ==
  /\ wpc = "Scan"
  /\ m_scanState' \in {"Complete", m_scanState}
  /\ wpc' = "Idle"
  /\ UNCHANGED <<mailboxVars, updateVars, m_scanToken, m_nextToken, operation, phase,
                 cancel_requested, checkpoints, result, callerVars>>

ProcessWifiScan ==
  /\ wpc = "Scan"
  /\ m_scanState' = "Complete"
  /\ wpc' = "Idle"
  /\ UNCHANGED <<mailboxVars, updateVars, m_scanToken, m_nextToken, operation, phase,
                 cancel_requested, checkpoints, result, callerVars>>

-----------------------------------------------------------------------------

Caller(c) ==
  \/ \E op \in Operations : SubmitUpdateJob(c, op)
  \/ SubmitWifiScan(c)
  \/ PollTransition(c) \/ PollPending(c) \/ PollComplete(c) \/ CancelUpdateJob(c)
  \/ PollScanComplete(c)

Worker ==
  \/ ProcessJobs \/ ProcessUpdateJob \/ CheckpointPresent \/ CheckpointReadCancel
  \/ CheckpointPresentCancel \/ OperationContinues \/ OperationReturns \/ UpdateComplete
  \/ ProcessWifiScan

JobsNext == Worker \/ \E c \in Callers : Caller(c)

JobsSpec == JobsInit /\ [][JobsNext]_jobsVars

\* The worker is a task with an endless loop, and a caller polls in a loop
\* until it has its answer; the operation returns (its network calls time out).
PollLoop(c) ==
  PollTransition(c) \/ PollComplete(c) \/ CancelUpdateJob(c) \/ PollScanComplete(c)

JobsFairSpec == JobsSpec /\ WF_jobsVars(Worker) /\ \A c \in Callers : WF_jobsVars(PollLoop(c))

-----------------------------------------------------------------------------
(* Properties. *)

JobsTypeOK ==
  /\ MailboxTypeOK
  /\ m_updateState \in JobStates /\ m_scanState \in JobStates
  /\ m_updateToken \in 0..TokenMax /\ m_scanToken \in 0..TokenMax
  /\ m_nextToken \in 1..TokenMax
  /\ m_updateOperation \in Operations \cup {NoOp} /\ m_updateCancelRequested \in BOOLEAN
  /\ m_updateResult \in Results /\ result \in Results
  /\ wpc \in {"Idle", "Begin", "Present", "ReadCancel", "PresentCancel", "Work", "Finish",
              "Scan"}
  /\ operation \in Operations \cup {NoOp} /\ phase \in Phases
  /\ cancel_requested \in BOOLEAN /\ checkpoints \in 0..MaxCheckpoints
  /\ cpc \in [Callers -> {"Menu", "Update", "Cancel", "Scan"}]
  /\ token \in [Callers -> 0..TokenMax]
  /\ asked \in [Callers -> Operations \cup {NoOp}]
  /\ answer \in [Callers -> Results] /\ pressed \in [Callers -> BOOLEAN]
  /\ shown \in Seq(Phases)

(***************************************************************************)
(* A caller that is still polling is never told Missing ("Network service  *)
(* lost the update operation"), and exactly one caller owns a job at any   *)
(* time: the update and the scan share the network one after the other.    *)
(***************************************************************************)
JobNeverLost ==
  /\ \A c \in Callers :
       /\ cpc[c] \in {"Update", "Cancel"} => UpdateFound(c)
       /\ cpc[c] = "Scan" => token[c] = m_scanToken /\ m_scanState # "Empty"
  /\ m_updateState = "Empty" \/ m_scanState = "Empty"
  /\ Cardinality({c \in Callers : cpc[c] # "Menu"}) <= 1

(***************************************************************************)
(* The answer a caller gets is that of the operation it posted, and it is  *)
(* a canceled one only if its own user asked for that during this job: no  *)
(* cancel is left over for the next job.                                   *)
(***************************************************************************)
AnswerIsOwn ==
  \A c \in Callers :
    answer[c] # NoResult => answer[c].op = asked[c] /\ (answer[c].canceled => pressed[c])

(***************************************************************************)
(* "Installation is deliberately mandatory": an operation that has shown a *)
(* mandatory phase is not ended by a cancel.                               *)
(***************************************************************************)
InstallationMandatory ==
  m_updateState = "Complete" /\ m_updateResult.canceled
    => \A i \in 1..Len(history) : history[i] < Stage

\* The hand-off is sound: no job is lost, each gives its own answer, and a cancel
\* reaches the job it was meant for and no phase it must not.
JobsSound == JobsTypeOK /\ JobNeverLost /\ AnswerIsOwn /\ InstallationMandatory

(***************************************************************************)
(* "phase transitions are retained in display order": the ring holds the   *)
(* newest transitions of this job, and as long as it did not overflow, the *)
(* menu shows every one of them before it gets the answer.                 *)
(***************************************************************************)
TransitionsInOrder ==
  /\ Queued = SubSeq(history, Len(history) - count + 1, Len(history))
  /\ Len(history) <= Capacity /\ (\E c \in Callers : cpc[c] \in {"Update", "Cancel"})
       => shown \o Queued = history
  /\ \A c \in Callers :
       cpc[c] = "Menu" /\ answer[c] # NoResult /\ m_updateState = "Empty" => count = 0

\* A job is answered: the menu that waits for it gets control back.
JobAnswered == \A c \in Callers : cpc[c] # "Menu" ~> cpc[c] = "Menu"
=============================================================================
