--------------------------- MODULE ServicesProofs ---------------------------
(***************************************************************************)
(* Proofs about the services beside the emulator: the menu's network jobs  *)
(* (NetworkJobs), the developer log (DeveloperLog) and the C library's     *)
(* files (StdioFiles).                                                     *)
(***************************************************************************)
EXTENDS NetworkJobs, DeveloperLog, StdioFiles, FiniteSetTheorems, SequenceTheorems, TLAPS

---------------------------------------------------------------------------
(* Remainders: places in a ring.                                            *)

LEMMA ModOf ==
  ASSUME NEW c \in Nat \ {0}, NEW q \in Int, NEW r \in 0..(c - 1)
  PROVE  (c * q + r) % c = r
OBVIOUS

LEMMA ModRange ==
  ASSUME NEW c \in Nat \ {0}, NEW a \in Nat
  PROVE  a % c \in 0..(c - 1) /\ a \div c \in Int /\ a = c * (a \div c) + (a % c)
OBVIOUS

\* Going on by less than a turn.
LEMMA ModPlus ==
  ASSUME NEW c \in Nat \ {0}, NEW a \in Nat, NEW k \in 0..(c - 1)
  PROVE  (a + k) % c = IF (a % c) + k < c THEN (a % c) + k ELSE (a % c) + k - c
<1> DEFINE q == a \div c
           r == a % c
<1>1. q \in Int /\ r \in 0..(c - 1) /\ a = c * q + r
  BY ModRange
<1> HIDE DEF q, r
<1>2. CASE r + k < c
  <2>1. a + k = c * q + (r + k)
    BY <1>1
  <2>2. (c * q + (r + k)) % c = r + k
    BY <1>1, <1>2, ModOf
  <2>3. QED
    BY <2>1, <2>2, <1>2 DEF r
<1>3. CASE ~(r + k < c)
  <2>1. q + 1 \in Int /\ r + k - c \in 0..(c - 1)
    BY <1>1, <1>3
  <2>2. c * (q + 1) = c * q + c
    BY <1>1
  <2>3. a + k = c * (q + 1) + (r + k - c)
    BY <1>1, <2>2
  <2>4. (c * (q + 1) + (r + k - c)) % c = r + k - c
    BY <2>1, ModOf
  <2>5. QED
    BY <2>3, <2>4, <1>3 DEF r
<1>4. QED
  BY <1>2, <1>3

\* Two places less than a turn apart are different.
LEMMA ModApart ==
  ASSUME NEW c \in Nat \ {0}, NEW a \in Nat, NEW b \in Nat, a < b, b < a + c
  PROVE  a % c # b % c
<1>1. b - a \in 0..(c - 1) /\ b = a + (b - a)
  OBVIOUS
<1>2. b % c = IF (a % c) + (b - a) < c THEN (a % c) + (b - a) ELSE (a % c) + (b - a) - c
  BY <1>1, ModPlus
<1>3. a % c \in 0..(c - 1)
  BY ModRange
<1>4. QED
  BY <1>1, <1>2, <1>3

---------------------------------------------------------------------------
(* NetworkJobs.                                                             *)

\* The caller that has the update job, and the worker that works on it.
HasUpdate(c) == cpc[c] \in {"Update", "Cancel"}
InJob == wpc \in {"Present", "ReadCancel", "PresentCancel", "Work", "Finish"}

\* Each job belongs to one caller and, while it runs, to the worker.
JobsOwned ==
  /\ \A c, d \in Callers : cpc[c] # "Menu" /\ cpc[d] # "Menu" => c = d
  /\ \A c \in Callers : HasUpdate(c) => UpdateFound(c)
  /\ \A c \in Callers :
       cpc[c] = "Scan" => token[c] # 0 /\ token[c] = m_scanToken /\ m_scanState # "Empty"
  /\ m_updateState = "Empty" \/ m_scanState = "Empty"
  /\ (m_scanState = "Running") <=> (wpc = "Scan")
  /\ (m_updateState = "Running") <=> (InJob \/ wpc = "Begin")

\* The operation is the one the caller posted, from the job to its result.
OperationKept ==
  /\ \A c \in Callers : HasUpdate(c) => asked[c] = m_updateOperation
  /\ InJob => operation = m_updateOperation
  /\ (wpc = "Finish") => (result.op = m_updateOperation)
  /\ (m_updateState = "Complete") => (m_updateResult.op = m_updateOperation)

\* A cancel anywhere on its way from the caller to the result was asked for by the
\* caller that has the job.
CancelKept ==
  /\ \A c \in Callers : HasUpdate(c) =>
       /\ m_updateCancelRequested => pressed[c]
       /\ InJob /\ cancel_requested => pressed[c]
       /\ wpc = "Finish" /\ result.canceled => pressed[c]
       /\ m_updateState = "Complete" /\ m_updateResult.canceled => pressed[c]
  /\ (wpc = "PresentCancel") => cancel_requested

\* Before the installation only phases before it have been shown.
EarlyPhases == \A i \in 1..Len(history) : history[i] < Stage
PhasesKept ==
  /\ (m_updateState = "Posted" \/ wpc = "Begin") => (history = <<>>)
  /\ InJob /\ phase < Stage => EarlyPhases
  /\ wpc = "Finish" /\ result.canceled => EarlyPhases

CheckpointsBounded ==
  /\ (wpc = "Present") => (checkpoints < MaxCheckpoints)

JobsInv ==
  /\ JobsTypeOK /\ JobsOwned /\ OperationKept /\ CancelKept /\ PhasesKept
  /\ CheckpointsBounded /\ AnswerIsOwn /\ InstallationMandatory

\* What the steps of the mailbox do to its state.
LEMMA MailboxStep ==
  ASSUME MailboxTypeOK
  PROVE  /\ Reset => MailboxTypeOK'
         /\ PopTransition => MailboxTypeOK'
         /\ \A p \in Phases : Present(p) =>
              /\ MailboxTypeOK'
              /\ history' = history \/ history' = Append(history, p)
<1> USE UpdateProgressMailboxAssumption DEF MailboxTypeOK
<1>1. (head + 1) % Capacity \in 0..(Capacity - 1)
  BY ModRange
<1>2. Reset => MailboxTypeOK'
  BY DEF Reset
<1>3. PopTransition => MailboxTypeOK'
  <2> SUFFICES ASSUME PopTransition PROVE MailboxTypeOK'
    OBVIOUS
  <2>1. head' \in 0..(Capacity - 1)
    BY <1>1 DEF PopTransition
  <2>2. count' \in 0..Capacity
    BY DEF PopTransition
  <2>3. QED
    BY <2>1, <2>2 DEF PopTransition
<1>4. ASSUME NEW p \in Phases, Present(p)
      PROVE  MailboxTypeOK' /\ (history' = history \/ history' = Append(history, p))
  <2>1. CASE latest = p
    BY <1>4, <2>1 DEF Present
  <2>2. CASE latest # p
    <3>1. Room.head \in 0..(Capacity - 1) /\ Room.count \in 0..(Capacity - 1)
      <4>1. CASE count = Capacity
        BY <1>1, <4>1 DEF Room, DropOldest
      <4>2. CASE count # Capacity
        BY <4>2 DEF Room
      <4>3. QED
        BY <4>1, <4>2
    <3>2. /\ transitions' = [transitions EXCEPT ![(Room.head + Room.count) % Capacity] = p]
          /\ head' = Room.head /\ count' = Room.count + 1
          /\ history' = Append(history, p) /\ latest' = p
      BY <1>4, <2>2 DEF Present
    <3> HIDE DEF Room
    <3>3. QED
      BY <3>1, <3>2
  <2>3. QED
    BY <2>1, <2>2
<1>5. QED
  BY <1>2, <1>3, <1>4

\* A phase before the installation keeps the phases shown before it.
LEMMA EarlyPhasesGrow ==
  ASSUME MailboxTypeOK, NEW p \in Phases, p < Stage, EarlyPhases,
         history' = history \/ history' = Append(history, p)
  PROVE  EarlyPhases'
<1>1. CASE history' = history
  BY <1>1 DEF EarlyPhases
<1>2. CASE history' = Append(history, p)
  <2>1. /\ Len(history) \in Nat /\ Len(history') = Len(history) + 1
        /\ \A i \in 1..Len(history) : history'[i] = history[i]
        /\ history'[Len(history) + 1] = p
    BY <1>2, AppendProperties, LenProperties DEF MailboxTypeOK
  <2>2. QED
    BY <2>1 DEF EarlyPhases
<1>3. QED
  BY <1>1, <1>2

\* Types.
LEMMA JobsTypeStep == JobsTypeOK /\ CheckpointsBounded /\ JobsNext => JobsTypeOK'
<1> SUFFICES ASSUME JobsTypeOK /\ CheckpointsBounded, JobsNext PROVE JobsTypeOK'
  OBVIOUS
<1> USE NetworkJobsAssumption, UpdateProgressMailboxAssumption DEF JobsTypeOK, JobStates, Results, NoResult,
    mailboxVars, updateVars, scanVars, workerVars, callerVars, CheckpointsBounded
<1>1. ASSUME NEW c \in Callers, NEW op \in Operations, SubmitUpdateJob(c, op) PROVE JobsTypeOK'
  <2>1. NextToken \in 1..TokenMax
    BY DEF NextToken
  <2>2. MailboxTypeOK'
    BY <1>1, MailboxStep DEF SubmitUpdateJob
  <2>3. shown' \in Seq(Phases)
    BY <1>1 DEF SubmitUpdateJob
  <2>4. m_updateCancelRequested' \in BOOLEAN /\ pressed' \in [Callers -> BOOLEAN]
    BY <1>1 DEF SubmitUpdateJob, CancelAtSubmit
  <2>5. m_updateResult' \in Results /\ answer' \in [Callers -> Results]
    BY <1>1 DEF SubmitUpdateJob
  <2>6. QED
    BY <1>1, <2>1, <2>2, <2>3, <2>4, <2>5 DEF SubmitUpdateJob
<1>2. ASSUME NEW c \in Callers, SubmitWifiScan(c) PROVE JobsTypeOK'
  <2>1. NextToken \in 1..TokenMax
    BY DEF NextToken
  <2>2. QED
    BY <1>2, <2>1 DEF SubmitWifiScan, MailboxTypeOK
<1>3. ASSUME NEW c \in Callers, PollTransition(c) PROVE JobsTypeOK'
  <2>1. MailboxTypeOK'
    BY <1>3, MailboxStep DEF PollTransition
  <2>2. transitions[head] \in Phases
    BY DEF MailboxTypeOK
  <2>3. shown' \in Seq(Phases)
    BY <1>3, <2>2 DEF PollTransition
  <2>4. cpc' \in [Callers -> {"Menu", "Update", "Cancel", "Scan"}]
    BY <1>3 DEF PollTransition
  <2>5. QED
    BY <1>3, <2>1, <2>3, <2>4 DEF PollTransition
<1>4. ASSUME NEW c \in Callers, PollPending(c) PROVE JobsTypeOK'
  BY <1>4 DEF PollPending, MailboxTypeOK
<1>5. ASSUME NEW c \in Callers, PollComplete(c) PROVE JobsTypeOK'
  BY <1>5 DEF PollComplete, MailboxTypeOK
<1>6. ASSUME NEW c \in Callers, CancelUpdateJob(c) PROVE JobsTypeOK'
  <2>1. m_updateCancelRequested' \in BOOLEAN /\ pressed' \in [Callers -> BOOLEAN]
    BY <1>6 DEF CancelUpdateJob
  <2>2. QED
    BY <1>6, <2>1 DEF CancelUpdateJob, MailboxTypeOK
<1>7. ASSUME NEW c \in Callers, PollScanComplete(c) PROVE JobsTypeOK'
  BY <1>7 DEF PollScanComplete, MailboxTypeOK
<1>8. CASE ProcessJobs
  BY <1>8 DEF ProcessJobs, MailboxTypeOK
<1>9. CASE ProcessUpdateJob
  <2>1. cancel_requested' \in BOOLEAN
    BY <1>9 DEF ProcessUpdateJob
  <2>2. phase' \in Phases /\ checkpoints' \in 0..MaxCheckpoints
    BY <1>9 DEF ProcessUpdateJob
  <2>3. QED
    BY <1>9, <2>1, <2>2 DEF ProcessUpdateJob, MailboxTypeOK
<1>10. CASE CheckpointPresent
  <2>1. MailboxTypeOK'
    BY <1>10, MailboxStep DEF CheckpointPresent
  <2>2. checkpoints' \in 0..MaxCheckpoints
    BY <1>10 DEF CheckpointPresent
  <2>3. QED
    BY <1>10, <2>1, <2>2 DEF CheckpointPresent
<1>11. CASE CheckpointReadCancel
  BY <1>11 DEF CheckpointReadCancel, MailboxTypeOK
<1>12. CASE CheckpointPresentCancel
  <2>1. MailboxTypeOK'
    BY <1>12, MailboxStep DEF CheckpointPresentCancel
  <2>2. result' \in Results
    <3>1. [op |-> operation, canceled |-> TRUE] \in Results
      OBVIOUS
    <3>2. result' = result \/ result' = [op |-> operation, canceled |-> TRUE]
      BY <1>12 DEF CheckpointPresentCancel
    <3>3. QED
      BY <3>1, <3>2
  <2>3. wpc' \in {"Work", "Finish"}
    BY <1>12 DEF CheckpointPresentCancel
  <2>4. QED
    BY <1>12, <2>1, <2>2, <2>3 DEF CheckpointPresentCancel
<1>13. CASE OperationContinues
  BY <1>13 DEF OperationContinues, MailboxTypeOK
<1>14. CASE OperationReturns
  BY <1>14 DEF OperationReturns, MailboxTypeOK
<1>15. CASE UpdateComplete
  BY <1>15 DEF UpdateComplete, MailboxTypeOK
<1>16. CASE ProcessWifiScan
  BY <1>16 DEF ProcessWifiScan, MailboxTypeOK
<1>17. QED
  BY <1>1, <1>2, <1>3, <1>4, <1>5, <1>6, <1>7, <1>8, <1>9,
     <1>10, <1>11, <1>12, <1>13, <1>14, <1>15, <1>16 DEF JobsNext, Caller, Worker

\* No job is lost.
LEMMA JobsOwnedStep == JobsTypeOK /\ JobsOwned /\ JobsNext => JobsOwned'
<1> SUFFICES ASSUME JobsTypeOK /\ JobsOwned, JobsNext PROVE JobsOwned'
  OBVIOUS
<1> USE NetworkJobsAssumption DEF JobsOwned, JobsTypeOK, HasUpdate, UpdateFound, InJob,
    mailboxVars, updateVars, scanVars, workerVars, callerVars
<1>1. ASSUME NEW c \in Callers, NEW op \in Operations, SubmitUpdateJob(c, op) PROVE JobsOwned'
  <2>1. NextToken \in 1..TokenMax
    BY DEF NextToken
  <2>2. \A d \in Callers : cpc[d] = "Menu"
    BY <1>1 DEF SubmitUpdateJob, JobsEmpty
  <2>3. QED
    BY <1>1, <2>1, <2>2 DEF SubmitUpdateJob, JobsEmpty
<1>2. ASSUME NEW c \in Callers, SubmitWifiScan(c) PROVE JobsOwned'
  <2>1. NextToken \in 1..TokenMax
    BY DEF NextToken
  <2>2. \A d \in Callers : cpc[d] = "Menu"
    BY <1>2 DEF SubmitWifiScan, JobsEmpty
  <2>3. QED
    BY <1>2, <2>1, <2>2 DEF SubmitWifiScan, JobsEmpty
<1>3. ASSUME NEW c \in Callers, PollTransition(c) PROVE JobsOwned'
  BY <1>3 DEF PollTransition, PopTransition
<1>4. ASSUME NEW c \in Callers, PollPending(c) PROVE JobsOwned'
  BY <1>4 DEF PollPending
<1>5. ASSUME NEW c \in Callers, PollComplete(c) PROVE JobsOwned'
  BY <1>5 DEF PollComplete
<1>6. ASSUME NEW c \in Callers, CancelUpdateJob(c) PROVE JobsOwned'
  BY <1>6 DEF CancelUpdateJob
<1>7. ASSUME NEW c \in Callers, PollScanComplete(c) PROVE JobsOwned'
  BY <1>7 DEF PollScanComplete
<1>8. CASE ProcessJobs
  BY <1>8 DEF ProcessJobs
<1>9. CASE ProcessUpdateJob
  BY <1>9 DEF ProcessUpdateJob
<1>10. CASE CheckpointPresent
  BY <1>10 DEF CheckpointPresent
<1>11. CASE CheckpointReadCancel
  BY <1>11 DEF CheckpointReadCancel
<1>12. CASE CheckpointPresentCancel
  BY <1>12 DEF CheckpointPresentCancel, CheckpointStops
<1>13. CASE OperationContinues
  BY <1>13 DEF OperationContinues
<1>14. CASE OperationReturns
  BY <1>14 DEF OperationReturns
<1>15. CASE UpdateComplete
  BY <1>15 DEF UpdateComplete
<1>16. CASE ProcessWifiScan
  BY <1>16 DEF ProcessWifiScan
<1>17. QED
  BY <1>1, <1>2, <1>3, <1>4, <1>5, <1>6, <1>7, <1>8, <1>9,
     <1>10, <1>11, <1>12, <1>13, <1>14, <1>15, <1>16 DEF JobsNext, Caller, Worker

\* The operation is kept.
LEMMA OperationKeptStep == JobsTypeOK /\ JobsOwned /\ OperationKept /\ JobsNext => OperationKept'
<1> SUFFICES ASSUME JobsTypeOK /\ JobsOwned /\ OperationKept, JobsNext PROVE OperationKept'
  OBVIOUS
<1> USE DEF OperationKept, JobsOwned, JobsTypeOK, Results, HasUpdate, UpdateFound, InJob,
    mailboxVars, updateVars, scanVars, workerVars, callerVars
<1>1. ASSUME NEW c \in Callers, NEW op \in Operations, SubmitUpdateJob(c, op) PROVE OperationKept'
  BY <1>1 DEF SubmitUpdateJob, JobsEmpty, NextToken, CancelAtSubmit, Reset
<1>2. ASSUME NEW c \in Callers, SubmitWifiScan(c) PROVE OperationKept'
  BY <1>2 DEF SubmitWifiScan, JobsEmpty, NextToken
<1>3. ASSUME NEW c \in Callers, PollTransition(c) PROVE OperationKept'
  BY <1>3 DEF PollTransition, PopTransition
<1>4. ASSUME NEW c \in Callers, PollPending(c) PROVE OperationKept'
  BY <1>4 DEF PollPending
<1>5. ASSUME NEW c \in Callers, PollComplete(c) PROVE OperationKept'
  BY <1>5 DEF PollComplete
<1>6. ASSUME NEW c \in Callers, CancelUpdateJob(c) PROVE OperationKept'
  BY <1>6 DEF CancelUpdateJob
<1>7. ASSUME NEW c \in Callers, PollScanComplete(c) PROVE OperationKept'
  BY <1>7 DEF PollScanComplete
<1>8. CASE ProcessJobs
  BY <1>8 DEF ProcessJobs
<1>9. CASE ProcessUpdateJob
  BY <1>9 DEF ProcessUpdateJob
<1>10. CASE CheckpointPresent
  BY <1>10 DEF CheckpointPresent
<1>11. CASE CheckpointReadCancel
  BY <1>11 DEF CheckpointReadCancel
<1>12. CASE CheckpointPresentCancel
  BY <1>12 DEF CheckpointPresentCancel, CheckpointStops
<1>13. CASE OperationContinues
  BY <1>13 DEF OperationContinues
<1>14. CASE OperationReturns
  BY <1>14 DEF OperationReturns
<1>15. CASE UpdateComplete
  BY <1>15 DEF UpdateComplete
<1>16. CASE ProcessWifiScan
  BY <1>16 DEF ProcessWifiScan
<1>17. QED
  BY <1>1, <1>2, <1>3, <1>4, <1>5, <1>6, <1>7, <1>8, <1>9,
     <1>10, <1>11, <1>12, <1>13, <1>14, <1>15, <1>16 DEF JobsNext, Caller, Worker

\* A cancel is kept with its caller.
LEMMA CancelKeptStep == JobsTypeOK /\ JobsOwned /\ CancelKept /\ JobsNext => CancelKept'
<1> SUFFICES ASSUME JobsTypeOK /\ JobsOwned /\ CancelKept, JobsNext PROVE CancelKept'
  OBVIOUS
<1> USE DEF CancelKept, JobsOwned, JobsTypeOK, Results, HasUpdate, UpdateFound, InJob,
    mailboxVars, updateVars, scanVars, workerVars, callerVars
<1>1. ASSUME NEW c \in Callers, NEW op \in Operations, SubmitUpdateJob(c, op) PROVE CancelKept'
  BY <1>1 DEF SubmitUpdateJob, JobsEmpty, NextToken, CancelAtSubmit, Reset
<1>2. ASSUME NEW c \in Callers, SubmitWifiScan(c) PROVE CancelKept'
  BY <1>2 DEF SubmitWifiScan, JobsEmpty, NextToken
<1>3. ASSUME NEW c \in Callers, PollTransition(c) PROVE CancelKept'
  BY <1>3 DEF PollTransition, PopTransition
<1>4. ASSUME NEW c \in Callers, PollPending(c) PROVE CancelKept'
  BY <1>4 DEF PollPending
<1>5. ASSUME NEW c \in Callers, PollComplete(c) PROVE CancelKept'
  BY <1>5 DEF PollComplete
<1>6. ASSUME NEW c \in Callers, CancelUpdateJob(c) PROVE CancelKept'
  BY <1>6 DEF CancelUpdateJob
<1>7. ASSUME NEW c \in Callers, PollScanComplete(c) PROVE CancelKept'
  BY <1>7 DEF PollScanComplete
<1>8. CASE ProcessJobs
  BY <1>8 DEF ProcessJobs
<1>9. CASE ProcessUpdateJob
  BY <1>9 DEF ProcessUpdateJob
<1>10. CASE CheckpointPresent
  BY <1>10 DEF CheckpointPresent
<1>11. CASE CheckpointReadCancel
  BY <1>11 DEF CheckpointReadCancel
<1>12. CASE CheckpointPresentCancel
  BY <1>12 DEF CheckpointPresentCancel, CheckpointStops
<1>13. CASE OperationContinues
  BY <1>13 DEF OperationContinues
<1>14. CASE OperationReturns
  BY <1>14 DEF OperationReturns
<1>15. CASE UpdateComplete
  BY <1>15 DEF UpdateComplete
<1>16. CASE ProcessWifiScan
  BY <1>16 DEF ProcessWifiScan
<1>17. QED
  BY <1>1, <1>2, <1>3, <1>4, <1>5, <1>6, <1>7, <1>8, <1>9,
     <1>10, <1>11, <1>12, <1>13, <1>14, <1>15, <1>16 DEF JobsNext, Caller, Worker

\* No mandatory phase before a cancel.
LEMMA PhasesKeptStep == JobsTypeOK /\ JobsOwned /\ PhasesKept /\ JobsNext => PhasesKept'
<1> SUFFICES ASSUME JobsTypeOK /\ JobsOwned /\ PhasesKept, JobsNext PROVE PhasesKept'
  OBVIOUS
<1> USE DEF PhasesKept, JobsOwned, JobsTypeOK, MailboxTypeOK, Results, InJob, EarlyPhases,
    mailboxVars, updateVars, scanVars, workerVars, callerVars
<1>1. ASSUME NEW c \in Callers, NEW op \in Operations, SubmitUpdateJob(c, op) PROVE PhasesKept'
  BY <1>1 DEF SubmitUpdateJob, JobsEmpty, NextToken, CancelAtSubmit, Reset
<1>2. ASSUME NEW c \in Callers, SubmitWifiScan(c) PROVE PhasesKept'
  BY <1>2 DEF SubmitWifiScan, JobsEmpty, NextToken
<1>3. ASSUME NEW c \in Callers, PollTransition(c) PROVE PhasesKept'
  BY <1>3 DEF PollTransition, PopTransition
<1>4. ASSUME NEW c \in Callers, PollPending(c) PROVE PhasesKept'
  BY <1>4 DEF PollPending
<1>5. ASSUME NEW c \in Callers, PollComplete(c) PROVE PhasesKept'
  BY <1>5 DEF PollComplete
<1>6. ASSUME NEW c \in Callers, CancelUpdateJob(c) PROVE PhasesKept'
  BY <1>6 DEF CancelUpdateJob
<1>7. ASSUME NEW c \in Callers, PollScanComplete(c) PROVE PhasesKept'
  BY <1>7 DEF PollScanComplete
<1>8. CASE ProcessJobs
  BY <1>8 DEF ProcessJobs
<1>9. CASE ProcessUpdateJob
  BY <1>9 DEF ProcessUpdateJob
<1>10. CASE CheckpointPresent
  <2>1. (history' = history \/ history' = Append(history, phase)) /\ history' \in Seq(Phases)
    BY <1>10, MailboxStep DEF CheckpointPresent, CheckpointPresentCancel, MailboxTypeOK
  <2>2. (phase < Stage /\ EarlyPhases) => EarlyPhases'
    BY <2>1, EarlyPhasesGrow
  <2> HIDE DEF EarlyPhases
  <2>3. QED
    BY <1>10, <2>2 DEF CheckpointPresent, CheckpointPresentCancel, CheckpointStops
<1>11. CASE CheckpointReadCancel
  BY <1>11 DEF CheckpointReadCancel
<1>12. CASE CheckpointPresentCancel
  <2>1. (history' = history \/ history' = Append(history, phase)) /\ history' \in Seq(Phases)
    BY <1>12, MailboxStep DEF CheckpointPresent, CheckpointPresentCancel, MailboxTypeOK
  <2>2. (phase < Stage /\ EarlyPhases) => EarlyPhases'
    BY <2>1, EarlyPhasesGrow
  <2> HIDE DEF EarlyPhases
  <2>3. QED
    BY <1>12, <2>2 DEF CheckpointPresent, CheckpointPresentCancel, CheckpointStops
<1>13. CASE OperationContinues
  BY <1>13 DEF OperationContinues
<1>14. CASE OperationReturns
  BY <1>14 DEF OperationReturns
<1>15. CASE UpdateComplete
  BY <1>15 DEF UpdateComplete
<1>16. CASE ProcessWifiScan
  BY <1>16 DEF ProcessWifiScan
<1>17. QED
  BY <1>1, <1>2, <1>3, <1>4, <1>5, <1>6, <1>7, <1>8, <1>9,
     <1>10, <1>11, <1>12, <1>13, <1>14, <1>15, <1>16 DEF JobsNext, Caller, Worker

\* The bound.
LEMMA CheckpointsBoundedStep == JobsTypeOK /\ CheckpointsBounded /\ JobsNext => CheckpointsBounded'
<1> SUFFICES ASSUME JobsTypeOK /\ CheckpointsBounded, JobsNext PROVE CheckpointsBounded'
  OBVIOUS
<1> USE NetworkJobsAssumption DEF CheckpointsBounded, JobsTypeOK,
    mailboxVars, updateVars, scanVars, workerVars, callerVars
<1>1. ASSUME NEW c \in Callers, NEW op \in Operations, SubmitUpdateJob(c, op) PROVE CheckpointsBounded'
  BY <1>1 DEF SubmitUpdateJob, JobsEmpty, NextToken, CancelAtSubmit, Reset
<1>2. ASSUME NEW c \in Callers, SubmitWifiScan(c) PROVE CheckpointsBounded'
  BY <1>2 DEF SubmitWifiScan, JobsEmpty, NextToken
<1>3. ASSUME NEW c \in Callers, PollTransition(c) PROVE CheckpointsBounded'
  BY <1>3 DEF PollTransition, PopTransition
<1>4. ASSUME NEW c \in Callers, PollPending(c) PROVE CheckpointsBounded'
  BY <1>4 DEF PollPending
<1>5. ASSUME NEW c \in Callers, PollComplete(c) PROVE CheckpointsBounded'
  BY <1>5 DEF PollComplete
<1>6. ASSUME NEW c \in Callers, CancelUpdateJob(c) PROVE CheckpointsBounded'
  BY <1>6 DEF CancelUpdateJob
<1>7. ASSUME NEW c \in Callers, PollScanComplete(c) PROVE CheckpointsBounded'
  BY <1>7 DEF PollScanComplete
<1>8. CASE ProcessJobs
  BY <1>8 DEF ProcessJobs
<1>9. CASE ProcessUpdateJob
  BY <1>9 DEF ProcessUpdateJob
<1>10. CASE CheckpointPresent
  BY <1>10 DEF CheckpointPresent
<1>11. CASE CheckpointReadCancel
  BY <1>11 DEF CheckpointReadCancel
<1>12. CASE CheckpointPresentCancel
  BY <1>12 DEF CheckpointPresentCancel, CheckpointStops
<1>13. CASE OperationContinues
  BY <1>13 DEF OperationContinues
<1>14. CASE OperationReturns
  BY <1>14 DEF OperationReturns
<1>15. CASE UpdateComplete
  BY <1>15 DEF UpdateComplete
<1>16. CASE ProcessWifiScan
  BY <1>16 DEF ProcessWifiScan
<1>17. QED
  BY <1>1, <1>2, <1>3, <1>4, <1>5, <1>6, <1>7, <1>8, <1>9,
     <1>10, <1>11, <1>12, <1>13, <1>14, <1>15, <1>16 DEF JobsNext, Caller, Worker

\* The answer.
LEMMA AnswerIsOwnStep == JobsInv /\ JobsNext => AnswerIsOwn'
<1> SUFFICES ASSUME JobsInv, JobsNext PROVE AnswerIsOwn'
  OBVIOUS
<1> USE DEF JobsInv, JobsTypeOK, Results, AnswerIsOwn, OperationKept, CancelKept, HasUpdate, InJob,
    mailboxVars, updateVars, scanVars, workerVars, callerVars
<1>1. ASSUME NEW c \in Callers, NEW op \in Operations, SubmitUpdateJob(c, op) PROVE AnswerIsOwn'
  BY <1>1 DEF SubmitUpdateJob, JobsEmpty, NextToken, CancelAtSubmit, Reset
<1>2. ASSUME NEW c \in Callers, SubmitWifiScan(c) PROVE AnswerIsOwn'
  BY <1>2 DEF SubmitWifiScan, JobsEmpty, NextToken
<1>3. ASSUME NEW c \in Callers, PollTransition(c) PROVE AnswerIsOwn'
  BY <1>3 DEF PollTransition, PopTransition
<1>4. ASSUME NEW c \in Callers, PollPending(c) PROVE AnswerIsOwn'
  BY <1>4 DEF PollPending
<1>5. ASSUME NEW c \in Callers, PollComplete(c) PROVE AnswerIsOwn'
  BY <1>5 DEF PollComplete
<1>6. ASSUME NEW c \in Callers, CancelUpdateJob(c) PROVE AnswerIsOwn'
  BY <1>6 DEF CancelUpdateJob
<1>7. ASSUME NEW c \in Callers, PollScanComplete(c) PROVE AnswerIsOwn'
  BY <1>7 DEF PollScanComplete
<1>8. CASE ProcessJobs
  BY <1>8 DEF ProcessJobs
<1>9. CASE ProcessUpdateJob
  BY <1>9 DEF ProcessUpdateJob
<1>10. CASE CheckpointPresent
  BY <1>10 DEF CheckpointPresent
<1>11. CASE CheckpointReadCancel
  BY <1>11 DEF CheckpointReadCancel
<1>12. CASE CheckpointPresentCancel
  BY <1>12 DEF CheckpointPresentCancel, CheckpointStops
<1>13. CASE OperationContinues
  BY <1>13 DEF OperationContinues
<1>14. CASE OperationReturns
  BY <1>14 DEF OperationReturns
<1>15. CASE UpdateComplete
  BY <1>15 DEF UpdateComplete
<1>16. CASE ProcessWifiScan
  BY <1>16 DEF ProcessWifiScan
<1>17. QED
  BY <1>1, <1>2, <1>3, <1>4, <1>5, <1>6, <1>7, <1>8, <1>9,
     <1>10, <1>11, <1>12, <1>13, <1>14, <1>15, <1>16 DEF JobsNext, Caller, Worker

\* The mandatory phases.
LEMMA InstallationMandatoryStep == JobsInv /\ JobsNext => InstallationMandatory'
<1> SUFFICES ASSUME JobsInv, JobsNext PROVE InstallationMandatory'
  OBVIOUS
<1> USE DEF JobsInv, JobsOwned, JobsTypeOK, Results, InstallationMandatory, PhasesKept, EarlyPhases, InJob,
    mailboxVars, updateVars, scanVars, workerVars, callerVars
<1>1. ASSUME NEW c \in Callers, NEW op \in Operations, SubmitUpdateJob(c, op) PROVE InstallationMandatory'
  BY <1>1 DEF SubmitUpdateJob, JobsEmpty, NextToken, CancelAtSubmit, Reset
<1>2. ASSUME NEW c \in Callers, SubmitWifiScan(c) PROVE InstallationMandatory'
  BY <1>2 DEF SubmitWifiScan, JobsEmpty, NextToken
<1>3. ASSUME NEW c \in Callers, PollTransition(c) PROVE InstallationMandatory'
  BY <1>3 DEF PollTransition, PopTransition
<1>4. ASSUME NEW c \in Callers, PollPending(c) PROVE InstallationMandatory'
  BY <1>4 DEF PollPending
<1>5. ASSUME NEW c \in Callers, PollComplete(c) PROVE InstallationMandatory'
  BY <1>5 DEF PollComplete
<1>6. ASSUME NEW c \in Callers, CancelUpdateJob(c) PROVE InstallationMandatory'
  BY <1>6 DEF CancelUpdateJob
<1>7. ASSUME NEW c \in Callers, PollScanComplete(c) PROVE InstallationMandatory'
  BY <1>7 DEF PollScanComplete
<1>8. CASE ProcessJobs
  BY <1>8 DEF ProcessJobs
<1>9. CASE ProcessUpdateJob
  BY <1>9 DEF ProcessUpdateJob
<1>10. CASE CheckpointPresent
  BY <1>10 DEF CheckpointPresent
<1>11. CASE CheckpointReadCancel
  BY <1>11 DEF CheckpointReadCancel
<1>12. CASE CheckpointPresentCancel
  BY <1>12 DEF CheckpointPresentCancel, CheckpointStops
<1>13. CASE OperationContinues
  BY <1>13 DEF OperationContinues
<1>14. CASE OperationReturns
  BY <1>14 DEF OperationReturns
<1>15. CASE UpdateComplete
  BY <1>15 DEF UpdateComplete
<1>16. CASE ProcessWifiScan
  BY <1>16 DEF ProcessWifiScan
<1>17. QED
  BY <1>1, <1>2, <1>3, <1>4, <1>5, <1>6, <1>7, <1>8, <1>9,
     <1>10, <1>11, <1>12, <1>13, <1>14, <1>15, <1>16 DEF JobsNext, Caller, Worker

LEMMA JobsInitially == JobsInit => JobsInv
<1> SUFFICES ASSUME JobsInit PROVE JobsInv
  OBVIOUS
<1> USE NetworkJobsAssumption, UpdateProgressMailboxAssumption DEF JobsInit
<1>1. MailboxTypeOK
  BY DEF MailboxInit, MailboxTypeOK
<1>2. JobsTypeOK
  <2>1. /\ m_updateCancelRequested \in BOOLEAN /\ cancel_requested \in BOOLEAN
        /\ pressed \in [Callers -> BOOLEAN]
    OBVIOUS
  <2>2. m_updateResult \in Results /\ result \in Results /\ answer \in [Callers -> Results]
    BY DEF NoResult, Results
  <2>3. shown \in Seq(Phases)
    OBVIOUS
  <2>4. QED
    BY <1>1, <2>1, <2>2, <2>3 DEF JobsTypeOK, JobStates
<1>3. JobsOwned
  BY DEF JobsOwned, HasUpdate, InJob
<1>4. OperationKept
  BY DEF OperationKept, HasUpdate, InJob
<1>5. CancelKept
  BY DEF CancelKept, HasUpdate
<1>6. PhasesKept /\ CheckpointsBounded
  BY DEF PhasesKept, InJob, CheckpointsBounded
<1>7. AnswerIsOwn /\ InstallationMandatory
  BY DEF AnswerIsOwn, InstallationMandatory
<1>8. QED
  BY <1>2, <1>3, <1>4, <1>5, <1>6, <1>7 DEF JobsInv

LEMMA JobsStep == JobsInv /\ [JobsNext]_jobsVars => JobsInv'
<1>1. JobsInv /\ JobsNext => JobsInv'
  BY JobsTypeStep, JobsOwnedStep, OperationKeptStep, CancelKeptStep, PhasesKeptStep,
     CheckpointsBoundedStep, AnswerIsOwnStep, InstallationMandatoryStep DEF JobsInv
<1>2. JobsInv /\ UNCHANGED jobsVars => JobsInv'
  BY DEF JobsInv, JobsTypeOK, MailboxTypeOK, JobsOwned, OperationKept, CancelKept, PhasesKept,
         EarlyPhases, CheckpointsBounded, AnswerIsOwn, InstallationMandatory, HasUpdate,
         UpdateFound, InJob, jobsVars, mailboxVars, updateVars, scanVars, workerVars, callerVars
<1>3. QED
  BY <1>1, <1>2

LEMMA JobsInvImplies == JobsInv => JobsSound
<1> SUFFICES ASSUME JobsInv PROVE JobsSound
  OBVIOUS
<1> DEFINE Inside == {c \in Callers : cpc[c] # "Menu"}
<1>1. Cardinality(Inside) <= 1
  <2>1. CASE Inside = {}
    BY <2>1, FS_EmptySet
  <2>2. CASE Inside # {}
    <3>1. PICK c \in Callers : c \in Inside
      BY <2>2
    <3>2. Inside = {c}
      BY <3>1 DEF JobsInv, JobsOwned
    <3>3. QED
      BY <3>2, FS_Singleton
  <2>3. QED
    BY <2>1, <2>2
<1>2. JobNeverLost
  BY <1>1 DEF JobNeverLost, JobsInv, JobsOwned, HasUpdate
<1>3. QED
  BY <1>2 DEF JobsSound, JobsInv

\* network_service.cpp: a job that was accepted is never lost, its caller gets the
\* answer to its own operation, a cancel reaches only the job it was meant for and
\* ends no installation.
THEOREM JobsAreSound == JobsSpec => []JobsSound
BY JobsInitially, JobsStep, JobsInvImplies, PTL DEF JobsSpec

\* The place k further on in a ring of Capacity places.
LEMMA Place ==
  ASSUME NEW x \in 0..(Capacity - 1), NEW k \in 0..(Capacity - 1)
  PROVE  (x + k) % Capacity = IF x + k < Capacity THEN x + k ELSE x + k - Capacity
<1> USE UpdateProgressMailboxAssumption
<1>1. x % Capacity = x
  OBVIOUS
<1>2. x \in Nat /\ Capacity \in Nat \ {0}
  OBVIOUS
<1>3. (x + k) % Capacity = IF (x % Capacity) + k < Capacity THEN (x % Capacity) + k
                                                            ELSE (x % Capacity) + k - Capacity
  BY <1>2, ModPlus
<1>4. QED
  BY <1>1, <1>3

\* The ring holds the newest transitions of the history, in order.
RingHolds(h, n) ==
  /\ n <= Len(history)
  /\ \A i \in 1..n : transitions[(h + i - 1) % Capacity] = history[Len(history) - n + i]

\* What the menu has shown are the transitions before those, unless the ring overflowed;
\* a job is over when all have been shown.
ShownInv ==
  /\ Len(history) <= Capacity => shown = SubSeq(history, 1, Len(history) - count)
  /\ (m_updateState = "Empty") => (count = 0)

RingInv == RingHolds(head, count) /\ ShownInv

\* Giving up the oldest transition.
LEMMA RingDrops ==
  ASSUME MailboxTypeOK, RingHolds(head, count), count > 0
  PROVE  /\ RingHolds((head + 1) % Capacity, count - 1)
         /\ transitions[head] = history[Len(history) - count + 1]
<1> USE UpdateProgressMailboxAssumption DEF MailboxTypeOK, RingHolds
<1> DEFINE h == (head + 1) % Capacity
<1>0. Len(history) \in Nat
  OBVIOUS
<1>1. h = IF head + 1 < Capacity THEN head + 1 ELSE 0
  <2>1. CASE head + 1 < Capacity
    BY <2>1
  <2>2. CASE head + 1 = Capacity
    BY <2>2
  <2>3. QED
    BY <2>1, <2>2
<1> HIDE DEF h
<1>2. ASSUME NEW i \in 1..(count - 1)
      PROVE  transitions[(h + i - 1) % Capacity] = history[Len(history) - (count - 1) + i]
  <2>1. i + 1 \in 1..count /\ i \in 0..(Capacity - 1) /\ i - 1 \in 0..(Capacity - 1)
    OBVIOUS
  <2>2. h \in 0..(Capacity - 1)
    BY <1>1
  <2>3. (head + i) % Capacity = IF head + i < Capacity THEN head + i ELSE head + i - Capacity
    BY <2>1, Place
  <2>4. (h + (i - 1)) % Capacity = IF h + (i - 1) < Capacity THEN h + (i - 1) ELSE h + (i - 1) - Capacity
    BY <2>1, <2>2, Place
  <2>5. h + (i - 1) = h + i - 1 /\ head + (i + 1) - 1 = head + i
    BY <2>2
  <2>6. (h + i - 1) % Capacity = (head + (i + 1) - 1) % Capacity
    BY <1>1, <2>3, <2>4, <2>5
  <2>7. transitions[(head + (i + 1) - 1) % Capacity] = history[Len(history) - count + (i + 1)]
    BY <2>1
  <2>8. Len(history) - count + (i + 1) = Len(history) - (count - 1) + i
    BY <1>0
  <2>9. QED
    BY <2>6, <2>7, <2>8
<1>3. RingHolds(h, count - 1)
  BY <1>0, <1>2
<1>4. transitions[head] = history[Len(history) - count + 1]
  <2>1. head + 1 - 1 = head /\ head % Capacity = head
    OBVIOUS
  <2>2. 1 \in 1..count
    OBVIOUS
  <2>3. QED
    BY <2>1, <2>2
<1>5. QED
  BY <1>3, <1>4 DEF h

\* Present keeps the newest transitions.
LEMMA RingPresents ==
  ASSUME MailboxTypeOK, RingHolds(head, count), NEW p \in Phases, Present(p)
  PROVE  /\ RingHolds(head, count)'
         /\ \/ UNCHANGED <<count, history>>
            \/ /\ history' = Append(history, p)
               /\ Len(history) < Capacity => count' = count + 1
<1> USE UpdateProgressMailboxAssumption DEF MailboxTypeOK
<1>1. CASE latest = p
  BY <1>1 DEF Present, RingHolds
<1>2. CASE latest # p
  <2> DEFINE h == Room.head
             n == Room.count
             L == Len(history)
  <2>1. /\ transitions' = [transitions EXCEPT ![(h + n) % Capacity] = p]
        /\ head' = h /\ count' = n + 1
        /\ history' = Append(history, p)
    BY <1>2 DEF Present
  <2>2. /\ h \in 0..(Capacity - 1) /\ n \in 0..(Capacity - 1) /\ RingHolds(h, n)
        /\ Len(history) < Capacity => n = count
    <3>1. CASE count = Capacity
      <4>1. h = (head + 1) % Capacity /\ n = count - 1
        BY <3>1 DEF Room, DropOldest
      <4>2. (head + 1) % Capacity \in 0..(Capacity - 1)
        BY ModRange
      <4>3. Len(history) \in Nat /\ count <= Len(history)
        BY DEF RingHolds
      <4>4. QED
        BY <3>1, <4>1, <4>2, <4>3, RingDrops
    <3>2. CASE count # Capacity
      <4>1. h = head /\ n = count
        BY <3>2 DEF Room
      <4>2. QED
        BY <3>2, <4>1
    <3>3. QED
      BY <3>1, <3>2
  <2> HIDE DEF h, n
  <2>3. /\ L \in Nat /\ Len(history') = L + 1
        /\ \A i \in 1..L : history'[i] = history[i]
        /\ history'[L + 1] = p
    BY <2>1, AppendProperties, LenProperties
  <2> HIDE DEF L
  <2>4. (h + n) % Capacity \in 0..(Capacity - 1)
    <3>1. h + n \in Nat
      BY <2>2
    <3>2. QED
      BY <3>1, ModRange
  <2>5. transitions'[(h + n) % Capacity] = p
    BY <2>1, <2>4
  <2>6. n <= L /\ \A i \in 1..n : transitions[(h + i - 1) % Capacity] = history[L - n + i]
    BY <2>2 DEF RingHolds, L
  <2>7. ASSUME NEW i \in 1..(n + 1)
        PROVE  transitions'[(h + i - 1) % Capacity] = history'[(L + 1) - (n + 1) + i]
    <3>1. CASE i = n + 1
      <4>1. h + i - 1 = h + n /\ (L + 1) - (n + 1) + i = L + 1
        BY <2>2, <2>3, <3>1
      <4>2. QED
        BY <2>3, <2>5, <4>1
    <3>2. CASE i # n + 1
      <4>1. i \in 1..n
        BY <2>2, <3>2
      <4>2. h + i - 1 \in Nat /\ h + n \in Nat /\ h + i - 1 < h + n /\ h + n < (h + i - 1) + Capacity
        BY <2>2, <4>1
      <4>3. (h + i - 1) % Capacity # (h + n) % Capacity
        BY <4>2, ModApart
      <4>4. (h + i - 1) % Capacity \in 0..(Capacity - 1)
        BY <4>2, ModRange
      <4>5. transitions'[(h + i - 1) % Capacity] = transitions[(h + i - 1) % Capacity]
        BY <2>1, <2>4, <4>3, <4>4
      <4>6. (L + 1) - (n + 1) + i = L - n + i /\ L - n + i \in 1..L
        BY <2>2, <2>3, <2>6, <4>1
      <4>7. QED
        BY <2>3, <2>6, <4>1, <4>5, <4>6
    <3>3. QED
      BY <3>1, <3>2
  <2>8. RingHolds(head, count)'
    <3>1. count' <= Len(history')
      BY <2>1, <2>2, <2>3, <2>6
    <3>2. \A i \in 1..count' :
            transitions'[(head' + i - 1) % Capacity] = history'[Len(history') - count' + i]
      BY <2>1, <2>3, <2>7
    <3>3. QED
      BY <3>1, <3>2 DEF RingHolds
  <2>9. QED
    BY <2>1, <2>2, <2>8 DEF L
<1>3. QED
  BY <1>1, <1>2

\* A sequence's front does not change when it grows.
LEMMA FrontKept ==
  ASSUME NEW S, NEW s \in Seq(S), NEW e \in S, NEW k \in 0..Len(s)
  PROVE  SubSeq(Append(s, e), 1, k) = SubSeq(s, 1, k)
<1> DEFINE t == Append(s, e)
<1>1. t \in Seq(S) /\ Len(t) = Len(s) + 1 /\ \A i \in 1..Len(s) : t[i] = s[i]
  BY AppendProperties
<1>2. Len(s) \in Nat /\ \A i \in 1..Len(s) : s[i] \in S
  BY LenProperties, ElementOfSeq
<1> HIDE DEF t
<1>3. \A i \in 1..k : s[i] \in S /\ t[i] = s[i]
  BY <1>1, <1>2
<1>4. /\ SubSeq(s, 1, k) \in Seq(S) /\ Len(SubSeq(s, 1, k)) = k
      /\ \A i \in 1..k : SubSeq(s, 1, k)[i] = s[i]
  BY <1>2, <1>3, SubSeqProperties
<1>5. /\ SubSeq(t, 1, k) \in Seq(S) /\ Len(SubSeq(t, 1, k)) = k
      /\ \A i \in 1..k : SubSeq(t, 1, k)[i] = t[i]
  BY <1>2, <1>3, SubSeqProperties
<1>6. QED
  BY <1>3, <1>4, <1>5, SeqEqual DEF t

\* Showing the oldest queued transition.
LEMMA ShownGrows ==
  ASSUME NEW S, NEW s \in Seq(S), NEW k \in 0..(Len(s) - 1)
  PROVE  Append(SubSeq(s, 1, k), s[k + 1]) = SubSeq(s, 1, k + 1)
<1>1. Len(s) \in Nat /\ \A i \in 1..Len(s) : s[i] \in S
  BY LenProperties, ElementOfSeq
<1>2. \A i \in 1..(k + 1) : s[i] \in S
  BY <1>1
<1>3. /\ SubSeq(s, 1, k) \in Seq(S) /\ Len(SubSeq(s, 1, k)) = k
      /\ \A i \in 1..k : SubSeq(s, 1, k)[i] = s[i]
  BY <1>1, <1>2, SubSeqProperties
<1>4. /\ SubSeq(s, 1, k + 1) \in Seq(S) /\ Len(SubSeq(s, 1, k + 1)) = k + 1
      /\ \A i \in 1..(k + 1) : SubSeq(s, 1, k + 1)[i] = s[i]
  BY <1>1, <1>2, SubSeqProperties
<1> DEFINE t == SubSeq(s, 1, k)
<1> HIDE DEF t
<1>5. /\ Append(t, s[k + 1]) \in Seq(S) /\ Len(Append(t, s[k + 1])) = k + 1
      /\ \A i \in 1..k : Append(t, s[k + 1])[i] = s[i]
      /\ Append(t, s[k + 1])[k + 1] = s[k + 1]
  BY <1>2, <1>3, AppendProperties DEF t
<1>6. \A i \in 1..(k + 1) : Append(t, s[k + 1])[i] = SubSeq(s, 1, k + 1)[i]
  BY <1>4, <1>5
<1>7. QED
  BY <1>4, <1>5, <1>6, SeqEqual DEF t

\* Every step of the job keeps the ring and what the menu has shown.
LEMMA RingStep == JobsInv /\ RingInv /\ JobsNext => RingInv'
<1> SUFFICES ASSUME JobsInv, RingInv, JobsNext PROVE RingInv'
  OBVIOUS
<1> USE UpdateProgressMailboxAssumption
<1>0. MailboxTypeOK /\ RingHolds(head, count) /\ ShownInv /\ JobsTypeOK /\ JobsOwned
  BY DEF JobsInv, JobsTypeOK, RingInv
<1>1. ASSUME NEW c \in Callers, NEW op \in Operations, SubmitUpdateJob(c, op) PROVE RingInv'
  <2>1. count' = 0 /\ history' = <<>> /\ shown' = <<>> /\ m_updateState' = "Posted"
    BY <1>1 DEF SubmitUpdateJob, Reset
  <2>2. Len(history') = 0 /\ SubSeq(history', 1, 0) = <<>>
    BY <2>1, SubSeqEmpty
  <2>3. QED
    BY <2>1, <2>2 DEF RingInv, RingHolds, ShownInv
<1>2. ASSUME NEW c \in Callers, PollTransition(c) PROVE RingInv'
  <2>1. /\ count > 0 /\ head' = (head + 1) % Capacity /\ count' = count - 1
        /\ UNCHANGED <<transitions, history, m_updateState>>
        /\ m_updateState # "Empty" /\ shown' = Append(shown, transitions[head])
    BY <1>2 DEF PollTransition, PopTransition, UpdateFound, updateVars
  <2>2. RingHolds(head, count)'
    BY <1>0, <2>1, RingDrops DEF RingHolds
  <2>3. count \in Nat /\ Len(history) \in Nat /\ count <= Len(history) /\ history \in Seq(Phases)
    BY <1>0 DEF MailboxTypeOK, RingHolds
  <2>4. ASSUME Len(history) <= Capacity
        PROVE  shown' = SubSeq(history, 1, Len(history) - count + 1)
    <3>1. shown = SubSeq(history, 1, Len(history) - count)
      BY <1>0, <2>4 DEF ShownInv
    <3>2. transitions[head] = history[Len(history) - count + 1]
      BY <1>0, <2>1, RingDrops
    <3>3. Len(history) - count \in 0..(Len(history) - 1)
      BY <2>1, <2>3
    <3>4. QED
      BY <2>1, <2>3, <3>1, <3>2, <3>3, ShownGrows
  <2>5. Len(history) - (count - 1) = Len(history) - count + 1
    BY <2>3
  <2>6. ShownInv'
    BY <2>1, <2>4, <2>5 DEF ShownInv
  <2>7. QED
    BY <2>2, <2>6 DEF RingInv
<1>3. ASSUME Present(phase), UNCHANGED <<shown, m_updateState>>, wpc \in {"Present", "PresentCancel"}
      PROVE  RingInv'
  <2>1. phase \in Phases /\ m_updateState = "Running"
    BY <1>0, <1>3 DEF JobsTypeOK, JobsOwned, InJob
  <2>2. RingHolds(head, count)'
    BY <1>0, <1>3, <2>1, RingPresents
  <2>3. CASE UNCHANGED <<count, history>>
    BY <1>0, <1>3, <2>2, <2>3 DEF RingInv, ShownInv
  <2>4. CASE /\ history' = Append(history, phase)
             /\ Len(history) < Capacity => count' = count + 1
    <3>1. /\ history \in Seq(Phases) /\ Len(history) \in Nat /\ Len(history') = Len(history) + 1
          /\ count \in Nat /\ count <= Len(history)
      BY <1>0, <2>1, <2>4, AppendProperties DEF MailboxTypeOK, RingHolds
    <3>2. ASSUME Len(history') <= Capacity
          PROVE  shown' = SubSeq(history', 1, Len(history') - count')
      <4>1. Len(history) < Capacity /\ count' = count + 1
        BY <2>4, <3>1, <3>2
      <4>2. Len(history') - count' = Len(history) - count /\ Len(history) - count \in 0..Len(history)
        BY <3>1, <4>1
      <4>3. shown' = SubSeq(history, 1, Len(history) - count)
        BY <1>0, <1>3, <3>1, <4>1 DEF ShownInv
      <4>4. QED
        BY <2>1, <2>4, <3>1, <4>2, <4>3, FrontKept
    <3>3. QED
      BY <1>3, <2>1, <2>2, <3>2 DEF RingInv, ShownInv
  <2>5. QED
    BY <1>0, <1>3, <2>1, <2>3, <2>4, RingPresents
<1>4. CASE CheckpointPresent \/ CheckpointPresentCancel
  BY <1>3, <1>4 DEF CheckpointPresent, CheckpointPresentCancel, updateVars, callerVars
<1>5. ASSUME UNCHANGED <<head, count, transitions, history, shown>>,
             m_updateState' = "Empty" => count = 0
      PROVE  RingInv'
  BY <1>0, <1>5 DEF RingInv, RingHolds, ShownInv
<1>6. ASSUME NEW c \in Callers,
             SubmitWifiScan(c) \/ PollPending(c) \/ PollComplete(c) \/ CancelUpdateJob(c)
               \/ PollScanComplete(c)
      PROVE  RingInv'
  BY <1>0, <1>5, <1>6
     DEF SubmitWifiScan, PollPending, PollComplete, CancelUpdateJob, PollScanComplete, ShownInv,
         mailboxVars, updateVars
<1>7. CASE \/ ProcessJobs \/ ProcessUpdateJob \/ CheckpointReadCancel \/ OperationContinues
           \/ OperationReturns \/ UpdateComplete \/ ProcessWifiScan
  BY <1>0, <1>5, <1>7
     DEF ProcessJobs, ProcessUpdateJob, CheckpointReadCancel, OperationContinues, OperationReturns,
         UpdateComplete, ProcessWifiScan, ShownInv, mailboxVars, updateVars, callerVars
<1>8. QED
  BY <1>1, <1>2, <1>4, <1>6, <1>7 DEF JobsNext, Caller, Worker

LEMMA RingInvImplies == JobsInv /\ RingInv => TransitionsInOrder
<1> SUFFICES ASSUME JobsInv, RingInv PROVE TransitionsInOrder
  OBVIOUS
<1> DEFINE L == Len(history)
           newest == SubSeq(history, L - count + 1, L)
<1>1. /\ history \in Seq(Phases) /\ L \in Nat /\ count \in Nat /\ count <= L
      /\ head \in 0..(Capacity - 1) /\ transitions \in [0..(Capacity - 1) -> Phases]
      /\ \A i \in 1..L : history[i] \in Phases
  BY DEF JobsInv, JobsTypeOK, MailboxTypeOK, RingInv, RingHolds
<1>2. \A i \in 1..count : transitions[(head + i - 1) % Capacity] = history[L - count + i]
  BY DEF RingInv, RingHolds
<1> HIDE DEF L
<1>3. \A i \in 1..count : L - count + i \in 1..L /\ history[L - count + i] \in Phases
  BY <1>1
<1>4. Queued \in Seq(Phases) /\ Len(Queued) = count
      /\ \A i \in 1..count : Queued[i] = history[L - count + i]
  <2>1. \A i \in 1..count : transitions[(head + i - 1) % Capacity] \in Phases
    BY <1>2, <1>3
  <2>2. Queued \in [1..count -> Phases]
    BY <2>1 DEF Queued
  <2>3. Queued \in Seq(Phases)
    BY <1>1, <2>2, SeqDef
  <2>4. Len(Queued) = count
    BY <1>1, <2>2, <2>3
  <2>5. \A i \in 1..count : Queued[i] = history[L - count + i]
    BY <1>2 DEF Queued
  <2>6. QED
    BY <2>3, <2>4, <2>5
<1>5. \A i \in (L - count + 1)..L : history[i] \in Phases
  BY <1>1
<1>6. newest \in Seq(Phases) /\ Len(newest) = count
      /\ \A i \in 1..count : newest[i] = history[L - count + i]
  <2>1. L - count + 1 \in Int /\ L \in Int /\ L - (L - count + 1) + 1 = count
    BY <1>1
  <2>2. /\ newest \in Seq(Phases)
        /\ Len(newest) = IF L - count + 1 <= L THEN L - (L - count + 1) + 1 ELSE 0
        /\ \A i \in 1..(L - (L - count + 1) + 1) : newest[i] = history[(L - count + 1) + i - 1]
    BY <1>5, <2>1, SubSeqProperties
  <2> HIDE DEF newest
  <2>3. Len(newest) = count
    BY <1>1, <2>1, <2>2
  <2>4. \A i \in 1..count : newest[i] = history[L - count + i]
    BY <1>1, <2>1, <2>2
  <2>5. QED
    BY <2>2, <2>3, <2>4
<1> HIDE DEF newest
<1>7. Queued = newest
  BY <1>4, <1>6, SeqEqual
<1>8. ASSUME L <= Capacity PROVE shown \o Queued = history
  <2>1. shown = SubSeq(history, 1, L - count)
    BY <1>8 DEF RingInv, ShownInv, L
  <2>2. 1 \in 1..(L + 1) /\ L - count \in (1 - 1)..L /\ L \in (L - count)..L
    BY <1>1
  <2>3. SubSeq(history, 1, L - count) \o SubSeq(history, (L - count) + 1, L) = SubSeq(history, 1, L)
    BY <1>1, <2>2, ConcatAdjacentSubSeq DEF L
  <2>4. SubSeq(history, 1, L) = history
    BY <1>1, SubSeqFull DEF L
  <2>5. QED
    BY <1>7, <2>1, <2>3, <2>4 DEF newest
<1>9. m_updateState = "Empty" => count = 0
  BY DEF RingInv, ShownInv
<1>10. QED
  BY <1>7, <1>8, <1>9 DEF TransitionsInOrder, newest, L

\* update_progress_mailbox.h: "phase transitions are retained in display order";
\* the ring keeps the newest ones, and unless it overflowed the menu has shown every
\* transition before it gets the answer.
THEOREM TransitionsKeepOrder == JobsSpec => []TransitionsInOrder
<1>1. JobsInit => RingInv
  <2> SUFFICES ASSUME JobsInit PROVE RingInv
    OBVIOUS
  <2>1. count = 0 /\ history = <<>> /\ shown = <<>> /\ Len(history) = 0
    BY DEF JobsInit, MailboxInit
  <2>2. SubSeq(history, 1, 0) = <<>>
    BY SubSeqEmpty
  <2>3. QED
    BY <2>1, <2>2 DEF RingInv, RingHolds, ShownInv
<1>2. JobsInv /\ RingInv /\ [JobsNext]_jobsVars => RingInv'
  <2>1. RingInv /\ UNCHANGED jobsVars => RingInv'
    BY DEF RingInv, RingHolds, ShownInv, jobsVars, mailboxVars, updateVars, callerVars
  <2>2. QED
    BY <2>1, RingStep
<1>3. QED
  BY <1>1, <1>2, JobsInitially, JobsStep, RingInvImplies, PTL DEF JobsSpec

---------------------------------------------------------------------------
(* DeveloperLog.                                                            *)

\* An open stream and its browser agree: the browser's cursor is where the stream
\* reads next, in this boot, inside what has been logged; each browser has one.
StreamsAgree ==
  /\ \A s \in StreamSlots : log_streams[s] # NoStream =>
       LET r == log_streams[s] IN
       /\ browser[r.owner].state = "open" /\ browser[r.owner].epoch = boot
       /\ browser[r.owner].cursor = r.sequence /\ browser[r.owner].end = r.end
       /\ r.sequence <= next_sequence
       /\ ~r.follow => r.sequence <= r.end /\ r.end <= next_sequence
  /\ \A s, t \in StreamSlots :
       log_streams[s] # NoStream /\ log_streams[t] # NoStream
         /\ log_streams[s].owner = log_streams[t].owner => s = t

LogInv == LogFaithful /\ StreamsAgree

LEMMA LogInitially == LogInit => LogInv
<1> SUFFICES ASSUME LogInit PROVE LogInv
  OBVIOUS
<1> USE LogAssumption DEF LogInit
<1>1. LogTypeOK
  <2>1. bytes \in [0..LogCapacity - 1 -> LogByte]
    BY DEF LogByte
  <2>2. QED
    BY <2>1 DEF LogTypeOK
<1>2. LogNeverMisleads /\ SnapshotWhole /\ WindowRetained
  BY DEF LogNeverMisleads, SnapshotWhole, WindowRetained
<1>3. StreamsAgree
  BY DEF StreamsAgree
<1>4. QED
  BY <1>1, <1>2, <1>3 DEF LogInv, LogFaithful

\* Where in the ring a place is, counted from the place of another one.
LEMMA RingOffset ==
  ASSUME NEW c \in Nat \ {0}, NEW f \in Nat, NEW j \in 0..(c - 1)
  PROVE  (((f + j) % c) + c - (f % c)) % c = j
<1> DEFINE r == f % c
           x == (f + j) % c
<1>1. r \in 0..(c - 1)
  BY ModRange
<1>2. x = IF r + j < c THEN r + j ELSE r + j - c
  BY ModPlus
<1> HIDE DEF r, x
<1>3. x + c - r = j \/ x + c - r = c * 1 + j
  BY <1>1, <1>2
<1>4. j % c = j /\ (c * 1 + j) % c = j
  BY ModOf
<1>5. (x + c - r) % c = j
  BY <1>3, <1>4
<1>6. QED
  BY <1>5 DEF r, x

LEMMA OldestInWindow ==
  ASSUME LogTypeOK PROVE Oldest \in 0..next_sequence
BY LogAssumption DEF LogTypeOK, Oldest

\* Append keeps the window: it overwrites just the bytes that leave it.
LEMMA AppendKeepsWindow ==
  ASSUME LogTypeOK, WindowRetained, NEW n \in 1..MaxAppend, RingAppend(n)
  PROVE  WindowRetained' /\ bytes' \in [0..LogCapacity - 1 -> LogByte]
<1> USE LogAssumption
<1> DEFINE C == LogCapacity
           retained == IF n > C THEN C ELSE n
           skipped == n - retained
           F == FirstRetained(n)
           K(i) == (i + C - (F % C)) % C
<1>1. /\ C \in Nat \ {0} /\ n \in Nat \ {0} /\ next_sequence \in Nat /\ boot \in 1..MaxBoots
      /\ retained \in 1..C /\ skipped \in Nat /\ F = next_sequence + skipped
      /\ skipped + retained = n
      /\ n <= C => skipped = 0 /\ retained = n
      /\ n > C => skipped = n - C /\ retained = C
  BY DEF LogTypeOK, FirstRetained
<1>2. /\ next_sequence + n <= MaxSequence /\ next_sequence' = next_sequence + n /\ boot' = boot
      /\ bytes' = [i \in 0..C - 1 |->
                     IF K(i) < retained
                     THEN [boot |-> boot, seq |-> next_sequence + skipped + K(i)]
                     ELSE bytes[i]]
  BY DEF RingAppend, LogTypeOK
<1> HIDE DEF retained, skipped, F, C
<1>3. \A i \in 0..C - 1 : K(i) \in 0..(C - 1)
  <2> TAKE i \in 0..C - 1
  <2>1. F % C \in 0..(C - 1)
    BY <1>1, ModRange
  <2>2. i + C - (F % C) \in Nat
    BY <1>1, <2>1
  <2>3. QED
    BY <1>1, <2>2, ModRange
<1>4. \A j \in 0..(C - 1) : K((F + j) % C) = j /\ (F + j) % C \in 0..(C - 1)
  <2> TAKE j \in 0..(C - 1)
  <2>1. F \in Nat /\ F + j \in Nat
    BY <1>1
  <2>2. QED
    BY <1>1, <2>1, RingOffset, ModRange
<1> HIDE DEF K
<1>5. ASSUME NEW i \in 0..C - 1 PROVE bytes'[i] \in LogByte
  <2>1. CASE K(i) < retained
    <3>1. next_sequence + skipped + K(i) \in 0..MaxSequence
      <4>1. K(i) \in Nat /\ next_sequence + skipped + K(i) < next_sequence + n
        BY <1>1, <1>3, <2>1
      <4>2. QED
        BY <1>1, <1>2, <4>1
    <3>2. [boot |-> boot, seq |-> next_sequence + skipped + K(i)] \in LogByte
      BY <1>1, <3>1 DEF LogByte
    <3>3. QED
      BY <1>2, <2>1, <3>2
  <2>2. CASE ~(K(i) < retained)
    BY <1>2, <2>2 DEF LogTypeOK, C
  <2>3. QED
    BY <2>1, <2>2
<1>6. bytes' \in [0..C - 1 -> LogByte]
  BY <1>2, <1>5
<1>7. ASSUME NEW q \in 0..MaxSequence, Oldest' <= q, q < next_sequence'
      PROVE  bytes'[q % C] = [boot |-> boot, seq |-> q]
  <2>1. q \in Nat /\ q >= next_sequence + n - C
    BY <1>1, <1>2, <1>7 DEF Oldest, C
  <2>2. CASE q >= F
    <3> DEFINE j == q - F
    <3>1. j \in 0..(C - 1) /\ j < retained /\ F + j = q /\ next_sequence + skipped + j = q
      BY <1>1, <1>2, <1>7, <2>1, <2>2
    <3> HIDE DEF j
    <3>2. K(q % C) = j /\ q % C \in 0..C - 1
      BY <1>4, <3>1
    <3>3. QED
      BY <1>2, <3>1, <3>2
  <2>3. CASE q < F
    <3> DEFINE j == q + C - F
    <3>1. /\ n < C /\ retained = n /\ F = next_sequence /\ q < next_sequence
          /\ j \in 0..(C - 1) /\ ~(j < retained) /\ F + j = q + C
      BY <1>1, <1>2, <1>7, <2>1, <2>3
    <3>2. (q + C) % C = q % C
      <4>1. q % C \in 0..(C - 1) /\ q \div C \in Int /\ q = C * (q \div C) + (q % C)
        BY <1>1, <2>1, ModRange
      <4>2. (q \div C) + 1 \in Int /\ C * ((q \div C) + 1) = C * (q \div C) + C
        BY <1>1, <4>1
      <4>3. q + C = C * ((q \div C) + 1) + (q % C)
        BY <1>1, <4>1, <4>2
      <4>4. (C * ((q \div C) + 1) + (q % C)) % C = q % C
        BY <1>1, <4>1, <4>2, ModOf
      <4>5. QED
        BY <4>3, <4>4
    <3> HIDE DEF j
    <3>3. K(q % C) = j /\ q % C \in 0..C - 1
      BY <1>4, <3>1, <3>2
    <3>4. bytes'[q % C] = bytes[q % C]
      BY <1>2, <3>1, <3>3
    <3>5. Oldest <= q
      BY <1>1, <2>1, <3>1 DEF Oldest, C
    <3>6. QED
      BY <3>1, <3>4, <3>5 DEF WindowRetained, RingByte, C
  <2>4. QED
    BY <1>1, <2>1, <2>2, <2>3
<1>8. QED
  BY <1>2, <1>6, <1>7 DEF WindowRetained, RingByte, C

\* A request starts inside the window, and where the browser is unless it says so.
LEMMA StartInWindow ==
  ASSUME LogTypeOK, NEW q \in [epoch : 0..MaxBoots, cursor : 0..MaxSequence, end : 0..MaxSequence,
                               state : {"closed", "open", "complete"}]
  PROVE  /\ Start(q) \in 0..MaxSequence /\ Start(q) <= next_sequence
         /\ q.epoch = 0 \/ Gap(q) \/ (q.epoch = boot /\ q.cursor = Start(q))
<1>1. Oldest \in 0..next_sequence /\ next_sequence \in 0..MaxSequence
  BY OldestInWindow DEF LogTypeOK
<1>2. CASE Gap(q)
  BY <1>1, <1>2, LogAssumption DEF Start
<1>3. CASE ~Gap(q)
  <2>1. Requested(q) \in 0..MaxSequence
    BY <1>1, LogAssumption DEF Requested
  <2>2. Requested(q) <= next_sequence
    BY <1>1, <1>3, <2>1, LogAssumption DEF Gap
  <2>3. QED
    BY <1>3, <2>1, <2>2 DEF Start, Gap, EpochReset, Requested
<1>4. QED
  BY <1>2, <1>3

LEMMA RouteLogsStep ==
  ASSUME LogInv, NEW b \in Browsers, NEW follow \in BOOLEAN, NEW resume \in BOOLEAN,
         RouteLogs(b, follow, resume)
  PROVE  LogInv'
<1> DEFINE old == browser[b]
           q == IF resume THEN old ELSE [old EXCEPT !.epoch = 0]
           start == Start(q)
<1>0. LogTypeOK /\ LogNeverMisleads /\ SnapshotWhole /\ WindowRetained /\ StreamsAgree
  BY DEF LogInv, LogFaithful
<1>1. q \in [epoch : 0..MaxBoots, cursor : 0..MaxSequence, end : 0..MaxSequence,
             state : {"closed", "open", "complete"}]
  <2>1. old \in [epoch : 0..MaxBoots, cursor : 0..MaxSequence, end : 0..MaxSequence,
                 state : {"closed", "open", "complete"}] /\ 0 \in 0..MaxBoots
    BY <1>0, LogAssumption DEF LogTypeOK
  <2> HIDE DEF old
  <2>2. CASE resume
    BY <2>1, <2>2
  <2>3. CASE ~resume
    BY <2>1, <2>3
  <2>4. QED
    BY <2>2, <2>3
<1>2. PICK s \in StreamSlots :
        /\ log_streams[s] = NoStream
        /\ log_streams' = [log_streams EXCEPT ![s] =
             [owner |-> b, sequence |-> start, end |-> next_sequence, follow |-> follow]]
  BY DEF RouteLogs
<1>3. /\ old.state # "open"
      /\ browser' = [browser EXCEPT ![b] =
           [epoch |-> boot, cursor |-> start, end |-> next_sequence, state |-> "open"]]
      /\ faithful' = IF q.epoch = 0 \/ Gap(q) \/ (q.epoch = boot /\ q.cursor = start)
                     THEN faithful ELSE faithful \ {b}
      /\ UNCHANGED <<boot, bytes, next_sequence>>
  BY DEF RouteLogs
<1>4. /\ start \in 0..MaxSequence /\ start <= next_sequence
      /\ q.epoch = 0 \/ Gap(q) \/ (q.epoch = boot /\ q.cursor = start)
  BY <1>0, <1>1, StartInWindow
<1>5. faithful' = faithful
  BY <1>3, <1>4
<1> HIDE DEF start, q
<1>6. LogTypeOK'
  <2>1. [owner |-> b, sequence |-> start, end |-> next_sequence, follow |-> follow]
          \in [owner : Browsers, sequence : 0..MaxSequence, end : 0..MaxSequence, follow : BOOLEAN]
    BY <1>0, <1>4 DEF LogTypeOK
  <2>2. [epoch |-> boot, cursor |-> start, end |-> next_sequence, state |-> "open"]
          \in [epoch : 0..MaxBoots, cursor : 0..MaxSequence, end : 0..MaxSequence,
               state : {"closed", "open", "complete"}]
    BY <1>0, <1>4, LogAssumption DEF LogTypeOK
  <2>3. QED
    BY <1>0, <1>2, <1>3, <1>5, <2>1, <2>2 DEF LogTypeOK
<1>7. SnapshotWhole'
  BY <1>0, <1>3 DEF SnapshotWhole, LogTypeOK
<1>8. LogNeverMisleads' /\ WindowRetained'
  BY <1>0, <1>3, <1>5 DEF LogNeverMisleads, WindowRetained, RingByte, Oldest
<1>9. StreamsAgree'
  <2>1. \A t \in StreamSlots : log_streams[t] # NoStream => log_streams[t].owner # b
    BY <1>0, <1>3 DEF StreamsAgree
  <2>2. \A t \in StreamSlots : t # s => log_streams'[t] = log_streams[t]
    BY <1>0, <1>2 DEF LogTypeOK
  <2>3. log_streams'[s] = [owner |-> b, sequence |-> start, end |-> next_sequence, follow |-> follow]
    BY <1>0, <1>2 DEF LogTypeOK
  <2>4. browser'[b] = [epoch |-> boot, cursor |-> start, end |-> next_sequence, state |-> "open"]
        /\ \A d \in Browsers : d # b => browser'[d] = browser[d]
    BY <1>0, <1>3 DEF LogTypeOK
  <2>5. \A t \in StreamSlots : log_streams[t] # NoStream => log_streams[t].owner \in Browsers
    BY <1>0 DEF LogTypeOK
  <2>6. next_sequence \in Nat
    BY <1>0 DEF LogTypeOK
  <2>7. QED
    BY <1>0, <1>3, <1>4, <2>1, <2>2, <2>3, <2>4, <2>5, <2>6 DEF StreamsAgree
<1>10. QED
  BY <1>6, <1>7, <1>8, <1>9 DEF LogInv, LogFaithful

\* A stream gives the browser the bytes after those it has.
LEMMA ReadDataStep ==
  ASSUME LogInv, NEW s \in StreamSlots, ReadData(s)
  PROVE  LogInv'
<1> DEFINE r == log_streams[s]
           b == r.owner
           d == RingRead(r.sequence, StreamCapacity(r))
<1>0. LogTypeOK /\ LogNeverMisleads /\ SnapshotWhole /\ WindowRetained /\ StreamsAgree
  BY DEF LogInv, LogFaithful
<1>1. /\ r # NoStream /\ (r.follow \/ r.sequence < r.end) /\ ~d.gap /\ d.size > 0
      /\ log_streams' = [log_streams EXCEPT ![s].sequence = d.start + d.size]
      /\ browser' = [browser EXCEPT ![b].cursor = @ + d.size]
      /\ faithful' = IF \A k \in 0..d.size - 1 :
                          RingByte(d.start + k) = [boot |-> browser[b].epoch,
                                                   seq  |-> browser[b].cursor + k]
                     THEN faithful ELSE faithful \ {b}
      /\ UNCHANGED <<boot, bytes, next_sequence>>
  BY DEF ReadData, Overrun
<1>2. r \in [owner : Browsers, sequence : 0..MaxSequence, end : 0..MaxSequence, follow : BOOLEAN]
  BY <1>0, <1>1 DEF LogTypeOK
<1>3. /\ browser[b].state = "open" /\ browser[b].epoch = boot
      /\ browser[b].cursor = r.sequence /\ browser[b].end = r.end
      /\ r.sequence <= next_sequence
      /\ ~r.follow => r.sequence <= r.end /\ r.end <= next_sequence
  BY <1>0, <1>1 DEF StreamsAgree
<1>4. next_sequence \in 0..MaxSequence /\ Oldest \in 0..next_sequence /\ MaxSequence \in Nat
  BY <1>0, OldestInWindow, LogAssumption DEF LogTypeOK
<1>5. StreamCapacity(r) \in Nat /\ (~r.follow => StreamCapacity(r) <= r.end - r.sequence)
  BY <1>2, <1>3, LogAssumption DEF StreamCapacity
<1>6. /\ d.start = r.sequence /\ r.sequence >= Oldest /\ d.size \in Nat
      /\ d.size <= next_sequence - r.sequence /\ d.size <= StreamCapacity(r)
  <2>1. ~(r.sequence < Oldest)
    BY <1>1 DEF RingRead
  <2>2. ~(r.sequence > next_sequence)
    BY <1>2, <1>3, <1>4
  <2>3. d.start = r.sequence
    BY <2>1, <2>2 DEF RingRead
  <2>4. d.size = IF next_sequence - d.start > StreamCapacity(r)
                 THEN StreamCapacity(r) ELSE next_sequence - d.start
    BY DEF RingRead
  <2>5. QED
    BY <1>2, <1>3, <1>4, <1>5, <2>1, <2>3, <2>4
<1> HIDE DEF r, d
<1>7. /\ r.sequence \in Nat /\ d.start + d.size = r.sequence + d.size
      /\ r.sequence + d.size \in 0..MaxSequence
      /\ r.sequence + d.size <= next_sequence
      /\ ~r.follow => r.sequence + d.size <= r.end
  BY <1>2, <1>3, <1>4, <1>5, <1>6
<1>8. faithful' = faithful
  <2>1. ASSUME NEW k \in 0..d.size - 1
        PROVE  RingByte(d.start + k) = [boot |-> browser[b].epoch, seq |-> browser[b].cursor + k]
    <3>1. r.sequence + k \in 0..MaxSequence /\ Oldest <= r.sequence + k /\ r.sequence + k < next_sequence
      <4>1. k \in Nat /\ k < d.size
        BY <1>6
      <4>2. QED
        BY <1>4, <1>6, <1>7, <4>1
    <3>2. RingByte(r.sequence + k) = [boot |-> boot, seq |-> r.sequence + k]
      BY <1>0, <3>1 DEF WindowRetained
    <3>3. QED
      BY <1>3, <1>6, <3>2
  <2>2. QED
    BY <1>1, <2>1
<1>9. /\ log_streams'[s] = [r EXCEPT !.sequence = r.sequence + d.size]
      /\ \A t \in StreamSlots : t # s => log_streams'[t] = log_streams[t]
  <2>1. log_streams' = [log_streams EXCEPT ![s].sequence = r.sequence + d.size]
    BY <1>1, <1>7
  <2>2. QED
    BY <1>0, <2>1 DEF LogTypeOK, r
<1>10. /\ browser'[b] = [browser[b] EXCEPT !.cursor = r.sequence + d.size]
       /\ \A c \in Browsers : c # b => browser'[c] = browser[c]
  BY <1>0, <1>1, <1>2, <1>3 DEF LogTypeOK
<1>11. b \in Browsers
  BY <1>2
<1>12. LogTypeOK'
  <2>1. log_streams'[s] \in
          [owner : Browsers, sequence : 0..MaxSequence, end : 0..MaxSequence, follow : BOOLEAN]
    <3>1. [r EXCEPT !.sequence = r.sequence + d.size] \in
            [owner : Browsers, sequence : 0..MaxSequence, end : 0..MaxSequence, follow : BOOLEAN]
      <4> DEFINE v == r.sequence + d.size
      <4>1. v \in 0..MaxSequence
        BY <1>7
      <4> HIDE DEF v
      <4>2. [r EXCEPT !.sequence = v] \in
              [owner : Browsers, sequence : 0..MaxSequence, end : 0..MaxSequence, follow : BOOLEAN]
        BY <1>2, <4>1
      <4>3. QED
        BY <4>2 DEF v
    <3>2. QED
      BY <1>9, <3>1
  <2>2. browser'[b] \in [epoch : 0..MaxBoots, cursor : 0..MaxSequence, end : 0..MaxSequence,
                         state : {"closed", "open", "complete"}]
    <3> DEFINE v == r.sequence + d.size
               o == browser[b]
    <3>1. v \in 0..MaxSequence
      BY <1>7
    <3>2. o \in [epoch : 0..MaxBoots, cursor : 0..MaxSequence, end : 0..MaxSequence,
                 state : {"closed", "open", "complete"}]
      BY <1>0, <1>11 DEF LogTypeOK
    <3> HIDE DEF v, o
    <3>3. [o EXCEPT !.cursor = v] \in
             [epoch : 0..MaxBoots, cursor : 0..MaxSequence, end : 0..MaxSequence,
              state : {"closed", "open", "complete"}]
      BY <3>1, <3>2
    <3>4. QED
      BY <1>10, <3>3 DEF v, o
  <2>3. log_streams' \in [StreamSlots ->
          {NoStream} \cup [owner : Browsers, sequence : 0..MaxSequence,
                           end : 0..MaxSequence, follow : BOOLEAN]]
    BY <1>0, <1>1, <1>9, <2>1 DEF LogTypeOK
  <2>4. browser' \in [Browsers -> [epoch : 0..MaxBoots, cursor : 0..MaxSequence,
                                   end : 0..MaxSequence, state : {"closed", "open", "complete"}]]
    BY <1>0, <1>1, <1>10, <2>2 DEF LogTypeOK
  <2>5. QED
    BY <1>0, <1>1, <1>8, <2>3, <2>4 DEF LogTypeOK
<1>13. SnapshotWhole'
  <2>1. browser'[b].state = "open"
    BY <1>0, <1>3, <1>10, <1>11 DEF LogTypeOK
  <2>2. QED
    BY <1>0, <1>10, <2>1 DEF SnapshotWhole
<1>14. LogNeverMisleads' /\ WindowRetained'
  BY <1>0, <1>1, <1>8 DEF LogNeverMisleads, WindowRetained, RingByte, Oldest
<1>15. StreamsAgree'
  <2>1. /\ log_streams'[s].owner = b /\ log_streams'[s].sequence = r.sequence + d.size
        /\ log_streams'[s].end = r.end /\ log_streams'[s].follow = r.follow
    BY <1>2, <1>9
  <2>2. /\ browser'[b].state = "open" /\ browser'[b].epoch = boot
        /\ browser'[b].cursor = r.sequence + d.size /\ browser'[b].end = r.end
    BY <1>0, <1>3, <1>10, <1>11 DEF LogTypeOK
  <2>3. \A t \in StreamSlots : t # s /\ log_streams[t] # NoStream => log_streams[t].owner # b
    BY <1>0, <1>1 DEF StreamsAgree, r
  <2>4. \A t \in StreamSlots : log_streams[t] # NoStream => log_streams[t].owner \in Browsers
    BY <1>0 DEF LogTypeOK
  <2>5. ASSUME NEW t \in StreamSlots, log_streams'[t] # NoStream
        PROVE  /\ browser'[log_streams'[t].owner].state = "open"
               /\ browser'[log_streams'[t].owner].epoch = boot
               /\ browser'[log_streams'[t].owner].cursor = log_streams'[t].sequence
               /\ browser'[log_streams'[t].owner].end = log_streams'[t].end
               /\ log_streams'[t].sequence <= next_sequence
               /\ ~log_streams'[t].follow => /\ log_streams'[t].sequence <= log_streams'[t].end
                                             /\ log_streams'[t].end <= next_sequence
    <3>1. CASE t = s
      BY <1>3, <1>7, <2>1, <2>2, <3>1
    <3>2. CASE t # s
      <4>1. log_streams'[t] = log_streams[t] /\ log_streams[t] # NoStream
        BY <1>9, <2>5, <3>2
      <4>2. browser'[log_streams[t].owner] = browser[log_streams[t].owner]
        BY <1>10, <2>3, <2>4, <3>2, <4>1
      <4>3. QED
        BY <1>0, <4>1, <4>2 DEF StreamsAgree
    <3>3. QED
      BY <3>1, <3>2
  <2>6. \A t \in StreamSlots : log_streams'[t] # NoStream => log_streams[t] # NoStream
                                 /\ log_streams'[t].owner = log_streams[t].owner
    BY <1>1, <1>9, <2>1 DEF r
  <2>7. \A t, u \in StreamSlots : log_streams'[t] # NoStream /\ log_streams'[u] # NoStream
          /\ log_streams'[t].owner = log_streams'[u].owner => t = u
    BY <1>0, <2>6 DEF StreamsAgree
  <2>8. boot' = boot /\ next_sequence' = next_sequence
    BY <1>1
  <2>9. QED
    BY <2>5, <2>7, <2>8 DEF StreamsAgree
<1>16. QED
  BY <1>12, <1>13, <1>14, <1>15 DEF LogInv, LogFaithful

\* The end of a stream, whatever its reason, frees its slot and closes its browser.
LEMMA StreamEnds ==
  ASSUME LogInv, NEW s \in StreamSlots, log_streams[s] # NoStream, Released(s),
         NEW st \in {"closed", "complete"},
         browser' = [browser EXCEPT ![log_streams[s].owner].state = st],
         st = "complete" => log_streams[s].sequence = log_streams[s].end,
         UNCHANGED <<boot, bytes, next_sequence, faithful>>
  PROVE  LogInv'
<1> DEFINE b == log_streams[s].owner
           o == browser[b]
           Known == [epoch : 0..MaxBoots, cursor : 0..MaxSequence, end : 0..MaxSequence,
                     state : {"closed", "open", "complete"}]
<1>0. LogTypeOK /\ LogNeverMisleads /\ SnapshotWhole /\ WindowRetained /\ StreamsAgree
  BY DEF LogInv, LogFaithful
<1>1. b \in Browsers /\ o \in Known
  BY <1>0 DEF LogTypeOK
<1>2. browser' = [browser EXCEPT ![b].state = st] /\ DOMAIN browser = Browsers
  BY <1>0 DEF LogTypeOK
<1>3. o.cursor = log_streams[s].sequence /\ o.end = log_streams[s].end
  BY <1>0 DEF StreamsAgree
<1>4. \A t \in StreamSlots : t # s /\ log_streams[t] # NoStream =>
         log_streams[t].owner # b /\ log_streams[t].owner \in Browsers
  BY <1>0 DEF StreamsAgree, LogTypeOK
<1>5. log_streams'[s] = NoStream /\ \A t \in StreamSlots : t # s => log_streams'[t] = log_streams[t]
  BY <1>0 DEF Released, LogTypeOK
<1> HIDE DEF b
<1>6. browser'[b] = [o EXCEPT !.state = st] /\ \A c \in Browsers : c # b => browser'[c] = browser[c]
  BY <1>1, <1>2
<1>7. LogTypeOK'
  <2>1. [o EXCEPT !.state = st] \in Known
    <3> HIDE DEF o
    <3>1. QED
      BY <1>1
  <2>2. browser' \in [Browsers -> Known]
    BY <1>0, <1>1, <1>2, <1>6, <2>1 DEF LogTypeOK
  <2>3. log_streams' \in [StreamSlots ->
          {NoStream} \cup [owner : Browsers, sequence : 0..MaxSequence,
                           end : 0..MaxSequence, follow : BOOLEAN]]
    BY <1>0 DEF Released, LogTypeOK
  <2>4. QED
    BY <1>0, <2>2, <2>3 DEF LogTypeOK
<1>8. SnapshotWhole'
  <2>1. /\ [o EXCEPT !.state = st].cursor = o.cursor /\ [o EXCEPT !.state = st].end = o.end
        /\ [o EXCEPT !.state = st].state = st
    BY <1>1
  <2>2. browser'[b].state = "complete" => browser'[b].cursor = browser'[b].end
    BY <1>3, <1>6, <2>1 DEF b
  <2>3. QED
    BY <1>0, <1>6, <2>2 DEF SnapshotWhole
<1>9. LogNeverMisleads' /\ WindowRetained'
  BY <1>0 DEF LogNeverMisleads, WindowRetained, RingByte, Oldest
<1>10. StreamsAgree'
  <2>1. \A t \in StreamSlots : log_streams'[t] # NoStream =>
          /\ t # s /\ log_streams'[t] = log_streams[t] /\ log_streams[t] # NoStream
          /\ browser'[log_streams[t].owner] = browser[log_streams[t].owner]
    BY <1>4, <1>5, <1>6
  <2>2. QED
    BY <1>0, <2>1 DEF StreamsAgree
<1>11. QED
  BY <1>7, <1>8, <1>9, <1>10 DEF LogInv, LogFaithful

LEMMA RebootStep == ASSUME LogInv, Reboot PROVE LogInv'
<1> USE LogAssumption
<1>0. LogTypeOK /\ LogNeverMisleads /\ SnapshotWhole
  BY DEF LogInv, LogFaithful
<1>1. \A b \in Browsers : /\ browser'[b] = browser[b] \/ browser'[b] = [browser[b] EXCEPT !.state = "closed"]
                          /\ browser'[b].state = "complete" => browser'[b] = browser[b]
  BY <1>0 DEF Reboot, LogTypeOK
<1>2. \A b \in Browsers : browser'[b] \in [epoch : 0..MaxBoots, cursor : 0..MaxSequence,
                                           end : 0..MaxSequence,
                                           state : {"closed", "open", "complete"}]
  <2> TAKE b \in Browsers
  <2> DEFINE o == browser[b]
  <2>1. o \in [epoch : 0..MaxBoots, cursor : 0..MaxSequence, end : 0..MaxSequence,
               state : {"closed", "open", "complete"}]
    BY <1>0 DEF LogTypeOK
  <2>2. browser'[b] = o \/ browser'[b] = [o EXCEPT !.state = "closed"]
    BY <1>1
  <2> HIDE DEF o
  <2>3. [o EXCEPT !.state = "closed"] \in
          [epoch : 0..MaxBoots, cursor : 0..MaxSequence, end : 0..MaxSequence,
           state : {"closed", "open", "complete"}]
    BY <2>1
  <2>4. QED
    BY <2>1, <2>2, <2>3
<1>3. browser' \in [Browsers -> [epoch : 0..MaxBoots, cursor : 0..MaxSequence,
                                 end : 0..MaxSequence,
                                 state : {"closed", "open", "complete"}]]
  BY <1>2 DEF Reboot
<1>4. LogTypeOK'
  BY <1>0, <1>3 DEF LogTypeOK, Reboot
<1>5. SnapshotWhole'
  BY <1>0, <1>1 DEF SnapshotWhole
<1>6. LogNeverMisleads' /\ WindowRetained'
  <2>1. next_sequence' = 0 /\ faithful' = faithful
    BY DEF Reboot
  <2>2. QED
    BY <1>0, <2>1 DEF LogNeverMisleads, WindowRetained
<1>7. StreamsAgree'
  BY DEF StreamsAgree, Reboot
<1>8. QED
  BY <1>4, <1>5, <1>6, <1>7 DEF LogInv, LogFaithful

LEMMA RingAppendStep == ASSUME LogInv, NEW n \in 1..MaxAppend, RingAppend(n) PROVE LogInv'
<1>0. LogTypeOK /\ LogNeverMisleads /\ SnapshotWhole /\ WindowRetained /\ StreamsAgree
  BY DEF LogInv, LogFaithful
<1>1. WindowRetained' /\ bytes' \in [0..LogCapacity - 1 -> LogByte]
  BY <1>0, AppendKeepsWindow
<1>2. /\ next_sequence' \in 0..MaxSequence /\ next_sequence <= next_sequence' /\ next_sequence \in Nat
      /\ UNCHANGED <<boot, log_streams, browser, faithful>>
  BY <1>0, LogAssumption DEF RingAppend, LogTypeOK
<1>3. LogTypeOK' /\ LogNeverMisleads' /\ SnapshotWhole'
  BY <1>0, <1>1, <1>2 DEF LogTypeOK, LogNeverMisleads, SnapshotWhole
<1>4. \A s \in StreamSlots : log_streams[s] # NoStream =>
        log_streams[s].sequence \in Nat /\ log_streams[s].end \in Nat
  BY <1>0 DEF LogTypeOK
<1>5. StreamsAgree'
  BY <1>0, <1>2, <1>4 DEF StreamsAgree
<1>6. QED
  BY <1>1, <1>3, <1>5 DEF LogInv, LogFaithful

\* developer_router.cpp, DeveloperLogRing: whatever is overwritten, lost or rebooted,
\* every byte a browser receives is the next one of the boot it believes in, a
\* snapshot that ends is whole, and the ring holds the window it announces.
THEOREM LogIsFaithful == LogSpec => []LogFaithful
<1>1. LogInv /\ [LogNext]_logVars => LogInv'
  <2> SUFFICES ASSUME LogInv, [LogNext]_logVars PROVE LogInv'
    OBVIOUS
  <2>1. ASSUME NEW n \in 1..MaxAppend, RingAppend(n) PROVE LogInv'
    BY <2>1, RingAppendStep
  <2>2. ASSUME NEW b \in Browsers, NEW follow \in BOOLEAN, NEW resume \in BOOLEAN,
               RouteLogs(b, follow, resume)
        PROVE  LogInv'
    BY <2>2, RouteLogsStep
  <2>3. ASSUME NEW s \in StreamSlots, ReadData(s) PROVE LogInv'
    BY <2>3, ReadDataStep
  <2>4. ASSUME NEW s \in StreamSlots, ReadEnd(s) PROVE LogInv'
    BY <2>4, StreamEnds DEF ReadEnd
  <2>5. ASSUME NEW s \in StreamSlots, ReadError(s) PROVE LogInv'
    BY <2>5, StreamEnds DEF ReadError
  <2>6. ASSUME NEW s \in StreamSlots, Disconnect(s) PROVE LogInv'
    BY <2>6, StreamEnds DEF Disconnect
  <2>7. CASE Reboot
    BY <2>7, RebootStep
  <2>8. CASE UNCHANGED logVars
    BY <2>8 DEF logVars, LogInv, LogFaithful, LogTypeOK, LogNeverMisleads, SnapshotWhole,
                WindowRetained, StreamsAgree, RingByte, Oldest
  <2>9. QED
    BY <2>1, <2>2, <2>3, <2>4, <2>5, <2>6, <2>7, <2>8 DEF LogNext, StreamRead
<1>2. LogInv => LogFaithful
  BY DEF LogInv
<1>3. QED
  BY <1>1, <1>2, LogInitially, PTL DEF LogSpec

---------------------------------------------------------------------------
(* StdioFiles.                                                              *)

\* The bytes the program has written are in memory while the file is, and on the
\* disk otherwise; also on the disk as long as nothing was written into memory.
BytesKept ==
  /\ ~cached => disk = logical
  /\ cached => in_use /\ contents = logical
  /\ cached /\ ~written_to => disk = logical
  /\ cached /\ written_to => ~synced
  /\ in_use /\ mode = "rd" => disk = logical /\ ~written_to

\* FatFs stands where the program does unless the file is in memory or given up.
PlaceKept ==
  /\ in_use /\ (cached \/ mode = "rd" \/ ~fil.err) => size = Len(logical)
  /\ in_use /\ ~cached /\ ~fil.err => fil.pos = position

StdioInv == StdioTypeOK /\ ReadsWhatWasWritten /\ BytesKept /\ PlaceKept

FilSet == [pos : 0..MaxFileSize, err : BOOLEAN]

\* The bounded texts are sequences.
LEMMA TextsDef ==
  ASSUME NEW n \in Nat, NEW t
  PROVE  t \in Texts(n) <=> t \in Seq(Bytes) /\ Len(t) <= n
<1>1. ASSUME t \in Texts(n) PROVE t \in Seq(Bytes) /\ Len(t) <= n
  <2>1. PICK k \in 0..n : t \in [1..k -> Bytes]
    BY <1>1 DEF Texts
  <2>2. t \in Seq(Bytes) /\ Len(t) = k
    BY <2>1
  <2>3. QED
    BY <2>2
<1>2. ASSUME t \in Seq(Bytes), Len(t) <= n PROVE t \in Texts(n)
  <2>1. Len(t) \in 0..n /\ t \in [1..Len(t) -> Bytes]
    BY <1>2
  <2>2. QED
    BY <2>1 DEF Texts
<1>3. QED
  BY <1>1, <1>2

LEMMA EmptyText ==
  <<>> \in Texts(CacheLimit) /\ <<>> \in Texts(MaxFileSize)
<1> DEFINE e == <<>>
<1>1. e \in Seq(Bytes) /\ Len(e) = 0
  OBVIOUS
<1> HIDE DEF e
<1>2. CacheLimit \in Nat /\ MaxFileSize \in Nat /\ Len(e) <= CacheLimit /\ Len(e) <= MaxFileSize
  BY <1>1, StdioAssumption
<1>3. e \in Texts(CacheLimit)
  BY <1>1, <1>2, TextsDef
<1>4. e \in Texts(MaxFileSize)
  BY <1>1, <1>2, TextsDef
<1>5. QED
  BY <1>3, <1>4 DEF e

LEMMA OverwriteText ==
  ASSUME NEW t \in Seq(Bytes), NEW b \in Seq(Bytes), NEW p \in 0..Len(t)
  PROVE  /\ Overwrite(t, p, b) \in Seq(Bytes)
         /\ Len(Overwrite(t, p, b)) = IF p + Len(b) > Len(t) THEN p + Len(b) ELSE Len(t)
<1> DEFINE m == IF p + Len(b) > Len(t) THEN p + Len(b) ELSE Len(t)
<1>1. m \in Nat /\ Len(b) \in Nat /\ Len(t) \in Nat
  OBVIOUS
<1>2. ASSUME NEW i \in 1..m
      PROVE  (IF i > p /\ i <= p + Len(b) THEN b[i - p] ELSE t[i]) \in Bytes
  <2>1. CASE i > p /\ i <= p + Len(b)
    BY <2>1, <1>1, i - p \in 1..Len(b)
  <2>2. CASE ~(i > p /\ i <= p + Len(b))
    BY <2>2, <1>1, i \in 1..Len(t)
  <2>3. QED
    BY <2>1, <2>2
<1>3. Overwrite(t, p, b) \in [1..m -> Bytes]
  BY <1>2 DEF Overwrite
<1> HIDE DEF m
<1>4. Overwrite(t, p, b) \in Seq(Bytes) /\ Len(Overwrite(t, p, b)) = m
  BY <1>1, <1>3
<1>5. QED
  BY <1>4 DEF m

LEMMA FirstText ==
  ASSUME NEW b \in Seq(Bytes), NEW k \in 0..Len(b)
  PROVE  First(k, b) \in Seq(Bytes) /\ Len(First(k, b)) = k
BY DEF First

\* f_lseek stands at its goal or has given the file up.
LEMMA LseekOutcome ==
  ASSUME NEW f \in FilSet, NEW p \in 0..MaxFileSize, NEW g \in f_lseek(f, p)
  PROVE  g \in FilSet /\ (~g.err => ~f.err /\ g.pos = p)
<1>1. f.err \in BOOLEAN /\ f.pos \in 0..MaxFileSize
  BY DEF FilSet
<1>2. CASE g = [pos |-> f.pos, err |-> TRUE]
  BY <1>1, <1>2 DEF FilSet
<1>3. CASE ~f.err /\ g = [pos |-> p, err |-> FALSE]
  BY <1>1, <1>3 DEF FilSet
<1>4. QED
  BY <1>1, <1>2, <1>3 DEF f_lseek

\* f_write puts a part of its bytes where FatFs stands, and stands behind them.
LEMMA WriteOutcome ==
  ASSUME NEW f \in FilSet, NEW d \in Seq(Bytes), NEW b \in Seq(Bytes), f.pos <= Len(d),
         NEW w \in f_write(f, d, b)
  PROVE  /\ w.count \in 0..Len(b) /\ w.fil.err \in BOOLEAN
         /\ w.fil = [pos |-> f.pos + w.count, err |-> w.fil.err]
         /\ w.disk = Overwrite(d, f.pos, First(w.count, b))
         /\ w.disk \in Seq(Bytes)
         /\ Len(w.disk) = IF f.pos + w.count > Len(d) THEN f.pos + w.count ELSE Len(d)
<1>1. f.err \in BOOLEAN /\ f.pos \in 0..Len(d) /\ Len(b) \in Nat
  BY StdioAssumption DEF FilSet
<1> DEFINE O == IF f.err THEN {<<0, TRUE>>} ELSE (0..Len(b)) \X BOOLEAN
<1>2. PICK o \in O :
        w = [fil |-> [pos |-> f.pos + o[1], err |-> o[2]],
             disk |-> Overwrite(d, f.pos, First(o[1], b)), count |-> o[1]]
  BY DEF f_write
<1>3. o[1] \in 0..Len(b) /\ o[2] \in BOOLEAN
  <2>1. CASE f.err
    <3>1. o = <<0, TRUE>>
      BY <2>1
    <3>2. o[1] = 0 /\ (o[2] \in BOOLEAN /\ o[2])
      BY <3>1
    <3>3. QED
      BY <3>2, <1>1
  <2>2. CASE ~f.err
    BY <2>2, <1>1
  <2>3. QED
    BY <2>1, <2>2
<1> DEFINE k == o[1]
           e == o[2]
<1> HIDE DEF O
<1>4. /\ k \in 0..Len(b) /\ e \in BOOLEAN
      /\ w = [fil |-> [pos |-> f.pos + k, err |-> e],
              disk |-> Overwrite(d, f.pos, First(k, b)), count |-> k]
  BY <1>2, <1>3
<1> HIDE DEF k, e
<1>5. First(k, b) \in Seq(Bytes) /\ Len(First(k, b)) = k
  BY <1>4, FirstText
<1>6. w.disk = Overwrite(d, f.pos, First(k, b)) /\ w.count = k
      /\ w.fil = [pos |-> f.pos + k, err |-> e] /\ w.fil.err = e
  BY <1>4
<1>7. /\ w.disk \in Seq(Bytes)
      /\ Len(w.disk) = IF f.pos + k > Len(d) THEN f.pos + k ELSE Len(d)
  BY <1>1, <1>4, <1>5, <1>6, OverwriteText
<1>8. QED
  BY <1>4, <1>6, <1>7

\* flush_cached_file succeeds with the cache on the disk, or fails and has a part there.
LEMMA FlushOutcome ==
  ASSUME StdioInv, cached, NEW o \in FlushCachedFile
  PROVE  /\ o.disk \in Texts(MaxFileSize) /\ o.fil \in FilSet /\ o.ok \in BOOLEAN
         /\ o.ok => o.disk = logical
         /\ ~o.ok => written_to
<1>1. /\ disk \in Seq(Bytes) /\ Len(disk) <= MaxFileSize
      /\ logical \in Seq(Bytes) /\ Len(logical) <= MaxFileSize
      /\ disk \in Texts(MaxFileSize) /\ logical \in Texts(MaxFileSize)
  BY StdioAssumption, TextsDef DEF StdioInv, StdioTypeOK
<1>2. /\ fil \in FilSet /\ fil.err \in BOOLEAN /\ fil.pos \in 0..MaxFileSize
      /\ size \in 0..MaxFileSize /\ written_to \in BOOLEAN
  BY DEF StdioInv, StdioTypeOK, FilSet
<1>3. contents = logical
  BY DEF StdioInv, BytesKept
<1>4. CASE ~written_to
  <2>1. o = [disk |-> disk, fil |-> fil, ok |-> TRUE]
    BY <1>4 DEF FlushCachedFile
  <2>2. disk = logical
    BY <1>4 DEF StdioInv, BytesKept
  <2>3. QED
    BY <2>1, <2>2, <1>1, <1>2
<1>5. CASE o = WriteBack
  BY <1>1, <1>2, <1>3, <1>5 DEF WriteBack, FilSet
<1>6. CASE written_to /\ o = [disk |-> disk, fil |-> [fil EXCEPT !.err = TRUE], ok |-> FALSE]
  <2>1. [fil EXCEPT !.err = TRUE] \in FilSet
    BY <1>2 DEF FilSet
  <2>2. QED
    BY <2>1, <1>1, <1>6
<1>7. ASSUME written_to,
             NEW w \in f_write([pos |-> 0, err |-> fil.err], disk, contents),
             o = [disk |-> w.disk, fil |-> w.fil, ok |-> FALSE]
      PROVE  /\ o.disk \in Texts(MaxFileSize) /\ o.fil \in FilSet
             /\ o.ok \in BOOLEAN /\ ~o.ok
  <2> DEFINE f == [pos |-> 0, err |-> fil.err]
  <2>1. f \in FilSet /\ f.pos = 0
    BY <1>2, StdioAssumption DEF FilSet
  <2> HIDE DEF f
  <2>2. f.pos <= Len(disk)
    BY <2>1, <1>1
  <2>3. w \in f_write(f, disk, logical)
    BY <1>7, <1>3 DEF f
  <2>4. /\ w.count \in 0..Len(logical) /\ w.fil.err \in BOOLEAN
        /\ w.fil = [pos |-> f.pos + w.count, err |-> w.fil.err]
        /\ w.disk \in Seq(Bytes)
        /\ Len(w.disk) = IF f.pos + w.count > Len(disk) THEN f.pos + w.count ELSE Len(disk)
    BY <2>1, <2>2, <2>3, <1>1, WriteOutcome
  <2>5. w.disk \in Texts(MaxFileSize)
    BY <2>1, <2>4, <1>1, TextsDef, StdioAssumption
  <2>6. w.fil \in FilSet
    BY <2>1, <2>4, <1>1, StdioAssumption DEF FilSet
  <2>7. QED
    BY <2>5, <2>6, <1>7
<1>8. CASE written_to
  <2>1. \/ o = WriteBack
        \/ o = [disk |-> disk, fil |-> [fil EXCEPT !.err = TRUE], ok |-> FALSE]
        \/ \E w \in f_write([pos |-> 0, err |-> fil.err], disk, contents) :
              o = [disk |-> w.disk, fil |-> w.fil, ok |-> FALSE]
    BY <1>8, <1>2 DEF FlushCachedFile
  <2>2. QED
    BY <2>1, <1>5, <1>6, <1>7, <1>8
<1>9. QED
  BY <1>4, <1>8, <1>2

LEMMA StdioFacts ==
  ASSUME StdioInv
  PROVE  /\ disk \in Seq(Bytes) /\ Len(disk) \in 0..MaxFileSize
         /\ logical \in Seq(Bytes) /\ Len(logical) \in 0..MaxFileSize
         /\ contents \in Seq(Bytes) /\ Len(contents) \in 0..CacheLimit
         /\ fil \in FilSet /\ fil.err \in BOOLEAN /\ fil.pos \in 0..MaxFileSize
         /\ size \in 0..MaxFileSize /\ position \in 0..size /\ position \in 0..MaxFileSize
         /\ WritePosition \in 0..size /\ WritePosition \in 0..MaxFileSize
BY StdioAssumption, TextsDef DEF StdioInv, StdioTypeOK, FilSet, WritePosition

LEMMA StdioInitially == StdioInit => StdioInv
<1> SUFFICES ASSUME StdioInit PROVE StdioInv
  OBVIOUS
<1>1. <<>> \in Texts(CacheLimit) /\ <<>> \in Texts(MaxFileSize)
  BY EmptyText
<1>2. disk \in Texts(MaxFileSize)
  BY StdioAssumption, TextsDef DEF StdioInit
<1>3. fil \in [pos : 0..MaxFileSize, err : BOOLEAN]
  BY StdioAssumption DEF StdioInit
<1>4. lastRead \in [got : Texts(MaxFileSize), due : Texts(MaxFileSize)]
  BY <1>1 DEF StdioInit, NoRead
<1>5. in_use \in BOOLEAN /\ append \in BOOLEAN /\ cached \in BOOLEAN /\ written_to \in BOOLEAN
      /\ synced \in BOOLEAN /\ ~in_use /\ ~cached
  BY DEF StdioInit
<1>6. StdioTypeOK
  BY <1>1, <1>2, <1>3, <1>4, <1>5, StdioAssumption DEF StdioInit, StdioTypeOK
<1>7. ReadsWhatWasWritten /\ BytesKept /\ PlaceKept
  BY <1>5 DEF StdioInit, ReadsWhatWasWritten, BytesKept, PlaceKept, NoRead
<1>8. QED
  BY <1>6, <1>7 DEF StdioInv

\* What _open leaves of the file.
LEMMA OpenedText ==
  ASSUME StdioInv, NEW m \in OpenModes, disk' = IF m.trunc /\ ~m.append THEN <<>> ELSE disk
  PROVE  disk' \in Texts(MaxFileSize) /\ disk' \in Seq(Bytes) /\ Len(disk') \in 0..MaxFileSize
<1>1. <<>> \in Texts(MaxFileSize) /\ <<>> \in Seq(Bytes) /\ Len(<<>>) = 0
  BY EmptyText
<1>2. disk' = <<>> \/ disk' = disk
  OBVIOUS
<1>3. QED
  BY <1>1, <1>2, StdioFacts, StdioAssumption DEF StdioInv, StdioTypeOK

LEMMA OpenStep ==
  ASSUME StdioInv, NEW m \in OpenModes, Open(m)
  PROVE  StdioInv'
<1>1. disk' \in Texts(MaxFileSize) /\ disk' \in Seq(Bytes) /\ Len(disk') \in 0..MaxFileSize
  BY OpenedText DEF Open
<1>2. /\ m.mode \in {"rd", "wr", "rdwr"} /\ m.append \in BOOLEAN /\ m.trunc \in BOOLEAN
  BY DEF OpenModes
<1>3. /\ logical' = disk' /\ mode' = m.mode /\ append' = m.append /\ lastRead' = NoRead
      /\ size' = Len(disk') /\ position' = OpenPosition(m)
  BY DEF Open
<1>4. (synced' \in BOOLEAN /\ synced') /\ (written_to' \in BOOLEAN /\ ~written_to')
      /\ (in_use' \in BOOLEAN /\ in_use') /\ append' \in BOOLEAN
  BY <1>2 DEF Open
<1>5. cached' \in BOOLEAN /\ (cached' => size' <= CacheLimit)
  BY DEF Open, OpenCaches, CanCache
<1>6. position' \in 0..size' /\ position' = IF m.append THEN size' ELSE 0
  BY <1>1, <1>2, <1>3 DEF OpenPosition
<1>7. <<>> \in Texts(CacheLimit) /\ <<>> \in Texts(MaxFileSize)
  BY EmptyText
<1>8. /\ contents' \in Texts(CacheLimit)
      /\ cached' => contents' = disk'
  <2>1. CASE cached'
    BY <2>1, <1>1, <1>3, <1>5, TextsDef, StdioAssumption DEF Open
  <2>2. CASE ~cached'
    BY <2>2, <1>7 DEF Open
  <2>3. QED
    BY <2>1, <2>2
<1>9. fil' \in FilSet /\ (~cached' => fil'.pos = position')
  <2> DEFINE q == IF (cached' /\ size' > 0) \/ m.append THEN size' ELSE 0
  <2>1. fil' = [pos |-> q, err |-> FALSE]
    BY DEF Open
  <2>2. q \in 0..MaxFileSize /\ (~cached' => q = position')
    BY <1>1, <1>2, <1>3, <1>5, <1>6, StdioAssumption
  <2> HIDE DEF q
  <2>3. QED
    BY <2>1, <2>2 DEF FilSet
<1>10. lastRead' \in [got : Texts(MaxFileSize), due : Texts(MaxFileSize)]
       /\ lastRead'.got = lastRead'.due
  BY <1>3, <1>7 DEF NoRead
<1>11. StdioTypeOK'
  BY <1>1, <1>2, <1>3, <1>4, <1>5, <1>6, <1>8, <1>9, <1>10 DEF StdioTypeOK, FilSet
<1>12. BytesKept' /\ PlaceKept'
  BY <1>1, <1>3, <1>4, <1>8, <1>9 DEF BytesKept, PlaceKept
<1>13. QED
  BY <1>10, <1>11, <1>12 DEF StdioInv, ReadsWhatWasWritten

LEMMA OpenFailsStep ==
  ASSUME StdioInv, NEW m \in OpenModes, OpenFails(m)
  PROVE  StdioInv'
<1>1. disk' \in Texts(MaxFileSize)
  BY OpenedText DEF OpenFails
<1>2. /\ logical' = disk' /\ (synced' \in BOOLEAN /\ synced') /\ ~in_use
  BY DEF OpenFails
<1>3. UNCHANGED <<fil, in_use, mode, append, size, position, contents, cached, written_to, lastRead>>
  BY DEF OpenFails
<1>4. ~cached
  BY <1>2 DEF StdioInv, BytesKept, StdioTypeOK
<1>5. StdioTypeOK'
  BY <1>1, <1>2, <1>3 DEF StdioInv, StdioTypeOK
<1>6. BytesKept' /\ PlaceKept'
  BY <1>2, <1>3, <1>4 DEF BytesKept, PlaceKept, StdioInv
<1>7. QED
  BY <1>3, <1>5, <1>6 DEF StdioInv, ReadsWhatWasWritten

LEMMA ReadStep ==
  ASSUME StdioInv, NEW n \in 1..MaxWrite, Read(n)
  PROVE  StdioInv'
<1> DEFINE from == IF cached THEN position ELSE fil.pos
           text == IF cached THEN contents ELSE disk
           k    == MinOf(n, Len(text) - from)
<1>1. in_use /\ (cached \/ ~fil.err)
  BY DEF Read
<1>2. from = position /\ text = logical /\ size = Len(logical)
  BY <1>1 DEF StdioInv, StdioTypeOK, BytesKept, PlaceKept
<1>3. /\ lastRead' = [got |-> SubSeq(text, from + 1, from + k),
                      due |-> Due(MinOf(n, Len(logical) - position))]
      /\ position' = position + k
      /\ fil' = IF cached THEN fil ELSE [fil EXCEPT !.pos = @ + k]
  BY DEF Read
<1>4. UNCHANGED <<disk, in_use, mode, append, size, contents, cached, written_to, logical, synced>>
  BY DEF Read
<1>5. k = MinOf(n, Len(logical) - position)
  BY <1>2
<1> HIDE DEF from, text, k
<1>6. k \in Nat /\ position + k \in 0..size
  BY <1>2, <1>5, StdioFacts, StdioAssumption DEF MinOf
<1> DEFINE read == SubSeq(logical, position + 1, position + k)
<1>7. read \in Seq(Bytes) /\ Len(read) <= MaxFileSize
  <2>1. position \in Nat /\ position + k <= Len(logical) /\ Len(logical) <= MaxFileSize
        /\ logical \in Seq(Bytes) /\ MaxFileSize \in Nat
    BY <1>2, <1>6, StdioFacts, StdioAssumption
  <2>2. QED
    BY <2>1, <1>6
<1>8. read \in Texts(MaxFileSize)
  BY <1>7, TextsDef, StdioAssumption
<1>9. lastRead' = [got |-> read, due |-> read]
  BY <1>2, <1>3, <1>5 DEF Due
<1> HIDE DEF read
<1>10. /\ lastRead' \in [got : Texts(MaxFileSize), due : Texts(MaxFileSize)]
       /\ lastRead'.got = lastRead'.due
  BY <1>8, <1>9
<1>11. /\ fil' \in FilSet /\ (cached => fil' = fil)
       /\ ~cached => fil'.pos = fil.pos + k /\ fil'.err = fil.err
  <2>1. CASE cached
    BY <2>1, <1>3, StdioFacts
  <2>2. CASE ~cached
    <3>0. fil.pos = position
      BY <2>2, <1>2 DEF from
    <3>1. fil.pos + k \in 0..MaxFileSize
      BY <3>0, <1>6, StdioFacts, StdioAssumption
    <3>2. fil' = [fil EXCEPT !.pos = fil.pos + k]
      BY <2>2, <1>3
    <3>3. QED
      BY <2>2, <3>1, <3>2, StdioFacts DEF FilSet
  <2>3. QED
    BY <2>1, <2>2
<1>12. StdioTypeOK'
  BY <1>3, <1>4, <1>6, <1>10, <1>11 DEF StdioInv, StdioTypeOK, FilSet
<1>13. BytesKept'
  BY <1>4 DEF StdioInv, BytesKept
<1>14. PlaceKept'
  <2>1. CASE cached
    BY <2>1, <1>2, <1>4 DEF PlaceKept
  <2>2. CASE ~cached
    BY <2>2, <1>2, <1>3, <1>4, <1>11 DEF PlaceKept, from
  <2>3. QED
    BY <2>1, <2>2
<1>15. QED
  BY <1>10, <1>12, <1>13, <1>14 DEF StdioInv, ReadsWhatWasWritten

\* FatFs gives the file up and nothing else changes.
LEMMA GivenUp ==
  ASSUME StdioInv, fil' = [fil EXCEPT !.err = TRUE],
         UNCHANGED <<disk, in_use, mode, append, size, position, contents, cached, written_to,
                     logical, synced, lastRead>>
  PROVE  StdioInv'
<1>1. fil' \in FilSet /\ fil'.err
  BY StdioFacts DEF FilSet
<1>2. StdioTypeOK' /\ ReadsWhatWasWritten' /\ BytesKept'
  BY <1>1 DEF StdioInv, StdioTypeOK, ReadsWhatWasWritten, BytesKept, FilSet
<1>3. PlaceKept'
  BY <1>1 DEF StdioInv, PlaceKept
<1>4. QED
  BY <1>2, <1>3 DEF StdioInv

\* A seek: the bytes stay, the place is the one asked for.
LEMMA SeekCachedStep ==
  ASSUME StdioInv, NEW p \in 0..MaxFileSize, SeekCached(p)
  PROVE  StdioInv'
<1>1. /\ in_use /\ p \in 0..size /\ position' = p
      /\ UNCHANGED <<disk, in_use, mode, append, size, written_to, logical, synced, lastRead>>
  BY DEF SeekCached
<1>2. CASE cached /\ UNCHANGED <<cached, contents, fil>>
  <2>1. StdioTypeOK'
    BY <1>1, <1>2 DEF StdioInv, StdioTypeOK
  <2>2. BytesKept' /\ ReadsWhatWasWritten'
    BY <1>1, <1>2 DEF StdioInv, BytesKept, ReadsWhatWasWritten
  <2>3. PlaceKept'
    BY <1>1, <1>2 DEF StdioInv, PlaceKept
  <2>4. QED
    BY <2>1, <2>2, <2>3 DEF StdioInv
<1>3. CASE ~cached /\ mode = "rd" /\ CacheFile
  <2>1. /\ disk = logical /\ size = Len(logical) /\ ~written_to /\ size <= CacheLimit
        /\ contents' = disk
    BY <1>1, <1>3 DEF StdioInv, BytesKept, PlaceKept, CacheFile
  <2>2. cached' \in BOOLEAN /\ cached'
    BY <1>3 DEF CacheFile
  <2>3. fil' \in FilSet
    <3> DEFINE q == IF size = 0 THEN fil.pos ELSE size
    <3>1. q \in 0..MaxFileSize
      BY StdioFacts
    <3>2. fil' = [fil EXCEPT !.pos = q]
      BY <1>3 DEF CacheFile
    <3> HIDE DEF q
    <3>3. QED
      BY <3>1, <3>2, StdioFacts DEF FilSet
  <2>4. contents' \in Texts(CacheLimit)
    BY <2>1, StdioFacts, TextsDef, StdioAssumption
  <2>5. StdioTypeOK'
    BY <1>1, <2>2, <2>3, <2>4 DEF StdioInv, StdioTypeOK, FilSet
  <2>6. BytesKept' /\ ReadsWhatWasWritten'
    BY <1>1, <2>1, <2>2 DEF StdioInv, BytesKept, ReadsWhatWasWritten
  <2>7. PlaceKept'
    BY <1>1, <2>1, <2>2 DEF PlaceKept
  <2>8. QED
    BY <2>5, <2>6, <2>7 DEF StdioInv
<1>4. QED
  BY <1>2, <1>3 DEF SeekCached

LEMMA SeekDirectStep ==
  ASSUME StdioInv, NEW p \in 0..MaxFileSize, SeekDirect(p)
  PROVE  StdioInv'
<1>1. /\ in_use /\ p \in 0..size /\ ~cached
      /\ UNCHANGED <<disk, in_use, mode, append, size, contents, cached, written_to, logical,
                     synced, lastRead>>
  BY DEF SeekDirect
<1>2. fil' \in FilSet /\ fil'.err \in BOOLEAN /\ (~fil'.err => ~fil.err /\ fil'.pos = p)
  BY LseekOutcome, StdioFacts DEF SeekDirect, FilSet
<1>3. position' = IF fil'.err THEN position ELSE p
  BY DEF SeekDirect
<1>4. position' \in 0..size
  BY <1>1, <1>3, StdioFacts
<1>5. StdioTypeOK'
  BY <1>1, <1>2, <1>4 DEF StdioInv, StdioTypeOK, FilSet
<1>6. BytesKept' /\ ReadsWhatWasWritten'
  BY <1>1 DEF StdioInv, BytesKept, ReadsWhatWasWritten
<1>7. PlaceKept'
  <2>1. CASE fil'.err
    BY <2>1, <1>1 DEF StdioInv, PlaceKept
  <2>2. CASE ~fil'.err
    BY <2>2, <1>1, <1>2, <1>3 DEF StdioInv, PlaceKept
  <2>3. QED
    BY <2>1, <2>2
<1>8. QED
  BY <1>5, <1>6, <1>7 DEF StdioInv

LEMMA DataText ==
  ASSUME StdioInv, NEW b \in Data
  PROVE  /\ b \in Seq(Bytes) /\ Len(b) \in Nat /\ Len(b) > 0
         /\ WritePosition + Len(b) <= MaxFileSize
BY TextsDef, StdioAssumption DEF Data

LEMMA WriteCachedStep ==
  ASSUME StdioInv, NEW b \in Data, WriteCached(b)
  PROVE  StdioInv'
<1> DEFINE q == WritePosition
           t == Overwrite(logical, q, b)
<1>1. /\ in_use /\ mode # "rd" /\ cached /\ q + Len(b) <= CacheLimit
      /\ position' = q + Len(b) /\ size' = Grown(position')
      /\ UNCHANGED <<disk, fil, in_use, mode, append, cached, lastRead>>
  BY DEF WriteCached
<1>2. (written_to' \in BOOLEAN /\ written_to') /\ (synced' \in BOOLEAN /\ ~synced')
  BY DEF WriteCached
<1>3. contents = logical /\ size = Len(logical)
  BY <1>1 DEF StdioInv, BytesKept, PlaceKept
<1>4. contents' = t /\ logical' = t
  BY <1>3 DEF WriteCached
<1>5. q \in 0..Len(logical) /\ q \in Nat
  BY <1>3, StdioFacts
<1> HIDE DEF q
<1>6. t \in Seq(Bytes) /\ Len(t) = IF q + Len(b) > Len(logical) THEN q + Len(b) ELSE Len(logical)
  BY <1>5, StdioFacts, DataText, OverwriteText
<1> HIDE DEF t
<1>7. q + Len(b) <= MaxFileSize
  BY DataText DEF q
<1>8. Len(t) <= CacheLimit /\ Len(t) <= MaxFileSize /\ size' = Len(t) /\ position' \in 0..size'
  BY <1>1, <1>3, <1>5, <1>6, <1>7, StdioFacts, DataText, StdioAssumption DEF Grown
<1>9. t \in Texts(CacheLimit) /\ t \in Texts(MaxFileSize) /\ size' \in 0..MaxFileSize
  BY <1>6, <1>8, TextsDef, StdioAssumption
<1>10. StdioTypeOK'
  BY <1>1, <1>2, <1>4, <1>8, <1>9 DEF StdioInv, StdioTypeOK
<1>11. BytesKept' /\ ReadsWhatWasWritten'
  BY <1>1, <1>2, <1>4 DEF StdioInv, BytesKept, ReadsWhatWasWritten
<1>12. PlaceKept'
  BY <1>1, <1>4, <1>8 DEF PlaceKept
<1>13. QED
  BY <1>10, <1>11, <1>12 DEF StdioInv

LEMMA WriteNoMemoryStep ==
  ASSUME StdioInv, WriteNoMemory
  PROVE  StdioInv'
<1>1. /\ in_use /\ cached /\ position' = WritePosition
      /\ UNCHANGED <<disk, fil, in_use, mode, append, size, contents, cached, written_to,
                     logical, synced, lastRead>>
  BY DEF WriteNoMemory
<1>2. StdioTypeOK'
  BY <1>1, StdioFacts DEF StdioInv, StdioTypeOK
<1>3. BytesKept' /\ ReadsWhatWasWritten' /\ PlaceKept'
  BY <1>1 DEF StdioInv, BytesKept, ReadsWhatWasWritten, PlaceKept
<1>4. QED
  BY <1>2, <1>3 DEF StdioInv

LEMMA SpillFailsStep ==
  ASSUME StdioInv, NEW b \in Data, SpillFails(b)
  PROVE  StdioInv'
<1>1. /\ in_use /\ mode # "rd" /\ cached /\ position' = WritePosition
      /\ UNCHANGED <<in_use, mode, append, size, contents, cached, written_to, logical, synced,
                     lastRead>>
  BY DEF SpillFails
<1>2. PICK o \in FlushCachedFile : ~o.ok /\ disk' = o.disk /\ fil' = o.fil
  BY DEF SpillFails
<1>3. disk' \in Texts(MaxFileSize) /\ fil' \in FilSet /\ written_to
  BY <1>1, <1>2, FlushOutcome
<1>4. StdioTypeOK'
  BY <1>1, <1>3, StdioFacts DEF StdioInv, StdioTypeOK, FilSet
<1>5. BytesKept' /\ ReadsWhatWasWritten' /\ PlaceKept'
  BY <1>1, <1>3 DEF StdioInv, BytesKept, ReadsWhatWasWritten, PlaceKept
<1>6. QED
  BY <1>4, <1>5 DEF StdioInv

\* A write where FatFs stands, of a file whose bytes are on the disk.
LEMMA WriteDirectStep ==
  ASSUME StdioInv, NEW b \in Data, NEW f \in FilSet, f.pos = WritePosition,
         size = Len(logical), mode # "rd",
         (cached' \in BOOLEAN /\ ~cached'), contents' \in Texts(CacheLimit),
         UNCHANGED <<in_use, mode, append, lastRead>>,
         WriteDirect(f, logical, WritePosition, b)
  PROVE  StdioInv'
<1> DEFINE q == WritePosition
<1>1. PICK w \in f_write(f, logical, b) :
        LET k == IF w.fil.err THEN 0 ELSE w.count
        IN  /\ disk' = w.disk /\ fil' = w.fil
            /\ position' = q + k
            /\ size' = Grown(position')
            /\ written_to' = (written_to \/ k > 0)
            /\ logical' = IF w.fil.err THEN w.disk ELSE Overwrite(logical, q, First(k, b))
            /\ synced' = FALSE
  BY DEF WriteDirect
<1>2. q \in 0..Len(logical) /\ q \in Nat /\ f.pos = q /\ f.pos <= Len(logical)
      /\ q + Len(b) <= MaxFileSize
  BY StdioFacts, DataText
<1>3. b \in Seq(Bytes) /\ Len(b) \in Nat /\ logical \in Seq(Bytes)
      /\ Len(logical) \in 0..MaxFileSize /\ size \in 0..MaxFileSize
  BY StdioFacts, DataText
<1> HIDE DEF q
<1>4. /\ w.count \in 0..Len(b) /\ w.fil.err \in BOOLEAN
      /\ w.fil = [pos |-> f.pos + w.count, err |-> w.fil.err]
      /\ w.disk = Overwrite(logical, f.pos, First(w.count, b))
      /\ w.disk \in Seq(Bytes)
      /\ Len(w.disk) = IF f.pos + w.count > Len(logical) THEN f.pos + w.count ELSE Len(logical)
  BY <1>2, <1>3, WriteOutcome
<1> DEFINE c == w.count
           e == w.fil.err
           t == w.disk
<1>5. /\ c \in 0..Len(b) /\ e \in BOOLEAN
      /\ w.fil = [pos |-> q + c, err |-> e]
      /\ t = Overwrite(logical, q, First(c, b)) /\ t \in Seq(Bytes)
      /\ Len(t) = IF q + c > Len(logical) THEN q + c ELSE Len(logical)
  BY <1>2, <1>4
<1>6. /\ disk' = t /\ fil' = w.fil
      /\ (e => position' = q) /\ (~e => position' = q + c)
      /\ size' = Grown(position') /\ logical' = t
  <2>1. disk' = t /\ fil' = w.fil /\ size' = Grown(position')
    BY <1>1
  <2>2. CASE e
    BY <2>1, <2>2, <1>1, <1>2
  <2>3. CASE ~e
    <3>1. position' = q + c /\ logical' = Overwrite(logical, q, First(c, b))
      BY <2>3, <1>1
    <3>2. QED
      BY <2>1, <2>3, <3>1, <1>5
  <2>4. QED
    BY <2>2, <2>3
<1>7. (synced' \in BOOLEAN /\ ~synced') /\ written_to' \in BOOLEAN
  BY <1>1
<1> HIDE DEF c, e, t
<1>8. Len(t) <= MaxFileSize /\ q + c \in 0..MaxFileSize
  BY <1>2, <1>3, <1>5, StdioAssumption
<1>9. t \in Texts(MaxFileSize)
  BY <1>5, <1>8, TextsDef, StdioAssumption
<1>10. fil' \in FilSet /\ fil'.err = e /\ fil'.pos = q + c
  BY <1>5, <1>6, <1>8 DEF FilSet
<1>11. position' \in 0..MaxFileSize /\ size' \in 0..MaxFileSize /\ position' \in 0..size'
  <2>1. position' \in 0..MaxFileSize
    BY <1>2, <1>3, <1>5, <1>6, <1>8, StdioAssumption
  <2>2. QED
    BY <2>1, <1>3, <1>6 DEF Grown
<1>12. StdioTypeOK'
  BY <1>6, <1>7, <1>9, <1>10, <1>11 DEF StdioInv, StdioTypeOK, FilSet
<1>13. BytesKept' /\ ReadsWhatWasWritten'
  BY <1>6 DEF StdioInv, BytesKept, ReadsWhatWasWritten
<1>14. PlaceKept'
  <2>1. CASE e
    BY <2>1, <1>10 DEF PlaceKept
  <2>2. CASE ~e
    <3>1. size' = Len(t)
      BY <2>2, <1>2, <1>3, <1>5, <1>6 DEF Grown
    <3>2. QED
      BY <2>2, <3>1, <1>6, <1>10 DEF PlaceKept
  <2>3. QED
    BY <2>1, <2>2
<1>15. QED
  BY <1>12, <1>13, <1>14 DEF StdioInv

LEMMA WriteSpilledStep ==
  ASSUME StdioInv, NEW b \in Data, WriteSpilled(b)
  PROVE  StdioInv'
<1>1. /\ in_use /\ mode # "rd" /\ cached
      /\ UNCHANGED <<in_use, mode, append, lastRead>>
  BY DEF WriteSpilled
<1>2. PICK o \in FlushCachedFile :
        /\ o.ok
        /\ cached' = FALSE /\ contents' = <<>>
        /\ \E f \in Spilled(o.fil, WritePosition) :
             IF f.err
             THEN /\ disk' = o.disk /\ fil' = f /\ position' = WritePosition
                  /\ UNCHANGED <<size, written_to, logical, synced>>
             ELSE WriteDirect(f, o.disk, WritePosition, b)
  BY DEF WriteSpilled
<1>3. o.disk = logical /\ o.fil \in FilSet /\ size = Len(logical)
  BY <1>1, <1>2, FlushOutcome DEF StdioInv, PlaceKept
<1>4. (cached' \in BOOLEAN /\ ~cached') /\ contents' \in Texts(CacheLimit)
  BY <1>2, EmptyText
<1>5. PICK f \in Spilled(o.fil, WritePosition) :
             IF f.err
             THEN /\ disk' = logical /\ fil' = f /\ position' = WritePosition
                  /\ UNCHANGED <<size, written_to, logical, synced>>
             ELSE WriteDirect(f, logical, WritePosition, b)
  BY <1>2, <1>3
<1>6. WritePosition \in 0..MaxFileSize /\ WritePosition \in 0..size
  BY StdioFacts
<1>7. f \in FilSet /\ f.err \in BOOLEAN /\ (~f.err => f.pos = WritePosition)
  <2>1. f \in f_lseek(o.fil, WritePosition)
    BY <1>5 DEF Spilled
  <2>2. f \in FilSet /\ (~f.err => f.pos = WritePosition)
    BY <2>1, <1>3, <1>6, LseekOutcome
  <2>3. QED
    BY <2>2 DEF FilSet
<1>8. CASE f.err
  <2>1. /\ disk' = logical /\ fil' = f /\ position' = WritePosition
        /\ UNCHANGED <<size, written_to, logical, synced>>
    BY <1>5, <1>8
  <2>2. StdioTypeOK'
    BY <1>1, <1>4, <1>6, <1>7, <2>1 DEF StdioInv, StdioTypeOK, FilSet
  <2>3. BytesKept' /\ ReadsWhatWasWritten'
    BY <1>1, <1>4, <2>1 DEF StdioInv, BytesKept, ReadsWhatWasWritten
  <2>4. PlaceKept'
    BY <1>1, <1>4, <1>8, <2>1 DEF PlaceKept
  <2>5. QED
    BY <2>2, <2>3, <2>4 DEF StdioInv
<1>9. CASE ~f.err
  <2>1. WriteDirect(f, logical, WritePosition, b)
    BY <1>5, <1>9
  <2>2. QED
    BY <2>1, <1>1, <1>3, <1>4, <1>7, <1>9, WriteDirectStep
<1>10. QED
  BY <1>7, <1>8, <1>9

LEMMA WriteUncachedStep ==
  ASSUME StdioInv, NEW b \in Data, WriteUncached(b)
  PROVE  StdioInv'
<1>1. /\ in_use /\ mode # "rd" /\ ~cached /\ disk = logical
      /\ UNCHANGED <<in_use, mode, append, contents, cached, lastRead>>
  BY DEF WriteUncached, StdioInv, BytesKept
<1>2. PICK f \in (IF append THEN f_lseek(fil, size) ELSE {fil}) :
        IF f.err
        THEN /\ fil' = f /\ position' = WritePosition
             /\ UNCHANGED <<disk, size, written_to, logical, synced>>
        ELSE WriteDirect(f, disk, WritePosition, b)
  BY DEF WriteUncached
<1>3. /\ f \in FilSet
      /\ ~f.err => ~fil.err /\ f.pos = WritePosition
  <2>1. CASE append
    BY <2>1, <1>2, LseekOutcome, StdioFacts DEF WritePosition
  <2>2. CASE ~append
    BY <2>2, <1>1, <1>2, StdioFacts DEF WritePosition, StdioInv, PlaceKept
  <2>3. QED
    BY <2>1, <2>2
<1>4. f.err \in BOOLEAN
  BY <1>3 DEF FilSet
<1>5. (cached' \in BOOLEAN /\ ~cached') /\ contents' \in Texts(CacheLimit)
  BY <1>1 DEF StdioInv, StdioTypeOK
<1>6. CASE f.err
  <2>1. /\ fil' = f /\ position' = WritePosition
        /\ UNCHANGED <<disk, size, written_to, logical, synced>>
    BY <1>2, <1>6
  <2>2. StdioTypeOK'
    BY <1>1, <1>3, <1>5, <2>1, StdioFacts DEF StdioInv, StdioTypeOK, FilSet
  <2>3. BytesKept' /\ ReadsWhatWasWritten'
    BY <1>1, <1>5, <2>1 DEF StdioInv, BytesKept, ReadsWhatWasWritten
  <2>4. PlaceKept'
    BY <1>1, <1>5, <1>6, <2>1 DEF PlaceKept
  <2>5. QED
    BY <2>2, <2>3, <2>4 DEF StdioInv
<1>7. CASE ~f.err
  <2>1. WriteDirect(f, logical, WritePosition, b)
    BY <1>1, <1>2, <1>7
  <2>2. size = Len(logical)
    BY <1>1, <1>3, <1>7 DEF StdioInv, PlaceKept
  <2>3. QED
    BY <2>1, <2>2, <1>1, <1>3, <1>5, <1>7, WriteDirectStep
<1>8. QED
  BY <1>4, <1>6, <1>7

\* What _close and fsync leave on the disk.
LEMMA SynchronisedOutcome ==
  ASSUME StdioInv, NEW o \in Synchronised
  PROVE  /\ o.disk \in Texts(MaxFileSize) /\ o.fil \in FilSet /\ o.ok \in BOOLEAN
         /\ o.ok => o.disk = logical
         /\ ~cached => o.disk = disk /\ o.fil = fil
         /\ cached /\ ~o.ok => written_to
<1>1. CASE cached
  BY <1>1, FlushOutcome DEF Synchronised
<1>2. CASE ~cached
  <2>1. PICK ok \in BOOLEAN : o = [disk |-> disk, fil |-> fil, ok |-> ok]
    BY <1>2 DEF Synchronised
  <2>2. o.disk = disk /\ o.fil = fil /\ o.ok \in BOOLEAN
    BY <2>1
  <2>3. disk = logical
    BY <1>2 DEF StdioInv, BytesKept
  <2>4. QED
    BY <1>2, <2>2, <2>3, StdioFacts DEF StdioInv, StdioTypeOK
<1>3. QED
  BY <1>1, <1>2 DEF StdioInv, StdioTypeOK

LEMMA FsyncStep ==
  ASSUME StdioInv, Fsync
  PROVE  StdioInv'
<1>1. /\ in_use /\ mode # "rd"
      /\ UNCHANGED <<in_use, mode, append, size, position, contents, cached, logical, lastRead>>
  BY DEF Fsync
<1>2. PICK o \in Synchronised :
        /\ disk' = o.disk /\ fil' = o.fil
        /\ written_to' = (written_to /\ ~o.ok)
        /\ synced' = (synced \/ o.ok)
  BY DEF Fsync
<1>3. /\ disk' \in Texts(MaxFileSize) /\ fil' \in FilSet /\ o.ok \in BOOLEAN
      /\ o.ok => disk' = logical
      /\ ~cached => disk' = disk /\ fil' = fil
      /\ cached /\ ~o.ok => written_to
  BY <1>2, SynchronisedOutcome
<1>4. written_to' \in BOOLEAN /\ synced' \in BOOLEAN
      /\ (o.ok => ~written_to') /\ (~o.ok /\ written_to => written_to' /\ (synced' => synced))
      /\ (~o.ok /\ synced' => synced)
  BY <1>2, <1>3 DEF StdioInv, StdioTypeOK
<1>5. StdioTypeOK'
  BY <1>1, <1>3, <1>4 DEF StdioInv, StdioTypeOK, FilSet
<1>6. BytesKept'
  <2>1. CASE o.ok
    BY <2>1, <1>1, <1>3, <1>4 DEF StdioInv, BytesKept
  <2>2. CASE ~o.ok
    BY <2>2, <1>1, <1>3, <1>4 DEF StdioInv, BytesKept
  <2>3. QED
    BY <2>1, <2>2, <1>3
<1>7. PlaceKept' /\ ReadsWhatWasWritten'
  BY <1>1, <1>3 DEF StdioInv, PlaceKept, ReadsWhatWasWritten
<1>8. QED
  BY <1>5, <1>6, <1>7 DEF StdioInv

LEMMA CloseStep ==
  ASSUME StdioInv, Close
  PROVE  StdioInv'
<1>1. PICK o \in Synchronised :
        /\ disk' = o.disk
        /\ IF o.ok THEN synced' = TRUE /\ UNCHANGED logical
           ELSE synced' = FALSE /\ logical' = o.disk
  BY DEF Close
<1>2. disk' \in Texts(MaxFileSize) /\ o.ok \in BOOLEAN /\ (o.ok => o.disk = logical)
  BY <1>1, SynchronisedOutcome
<1>3. logical' = disk'
  BY <1>1, <1>2
<1>4. synced' \in BOOLEAN
  BY <1>1
<1>5. /\ mode' = "rd" /\ size' = 0 /\ position' = 0 /\ contents' = <<>> /\ lastRead' = NoRead
      /\ fil' = [pos |-> 0, err |-> FALSE]
  BY DEF Close
<1>6. (in_use' \in BOOLEAN /\ ~in_use') /\ append' \in BOOLEAN
      /\ (cached' \in BOOLEAN /\ ~cached') /\ written_to' \in BOOLEAN
  BY DEF Close
<1>7. fil' \in FilSet
  BY <1>5, StdioAssumption DEF FilSet
<1>8. lastRead' \in [got : Texts(MaxFileSize), due : Texts(MaxFileSize)]
      /\ lastRead'.got = lastRead'.due
  BY <1>5, EmptyText DEF NoRead
<1>9. StdioTypeOK'
  BY <1>2, <1>3, <1>4, <1>5, <1>6, <1>7, <1>8, EmptyText, StdioAssumption DEF StdioTypeOK, FilSet
<1>10. BytesKept' /\ PlaceKept' /\ ReadsWhatWasWritten'
  BY <1>3, <1>6, <1>8 DEF BytesKept, PlaceKept, ReadsWhatWasWritten
<1>11. QED
  BY <1>9, <1>10 DEF StdioInv

LEMMA StdioFaithful == StdioInv => FilesFaithful
<1> SUFFICES ASSUME StdioInv PROVE FilesFaithful
  OBVIOUS
<1>1. SyncedOnDisk
  BY DEF StdioInv, StdioTypeOK, BytesKept, SyncedOnDisk
<1>2. FileIntact
  BY DEF StdioInv, StdioTypeOK, BytesKept, PlaceKept, FileIntact
<1>3. QED
  BY <1>1, <1>2 DEF StdioInv, FilesFaithful

\* new_io.cpp: whichever calls of FatFs fail, a read gives the bytes that were
\* written, in memory, spilled or on the disk, and what a successful fsync or close
\* reported as written is there.
THEOREM FilesAreFaithful == StdioSpec => []FilesFaithful
<1>1. StdioInv /\ [StdioNext]_stdioVars => StdioInv'
  <2> SUFFICES ASSUME StdioInv, [StdioNext]_stdioVars PROVE StdioInv'
    OBVIOUS
  <2>1. ASSUME NEW m \in OpenModes, Open(m) \/ OpenFails(m) PROVE StdioInv'
    BY <2>1, OpenStep, OpenFailsStep
  <2>2. ASSUME NEW n \in 1..MaxWrite, Read(n) PROVE StdioInv'
    BY <2>2, ReadStep
  <2>3. CASE ReadFails
    BY <2>3, GivenUp DEF ReadFails
  <2>4. ASSUME NEW p \in 0..MaxFileSize, SeekCached(p) \/ SeekDirect(p) PROVE StdioInv'
    BY <2>4, SeekCachedStep, SeekDirectStep
  <2>5. CASE SeekCacheFails
    BY <2>5, GivenUp DEF SeekCacheFails
  <2>6. CASE WriteNoMemory
    BY <2>6, WriteNoMemoryStep
  <2>7. ASSUME NEW b \in Data, WriteCached(b) \/ SpillFails(b) PROVE StdioInv'
    BY <2>7, WriteCachedStep, SpillFailsStep
  <2>8. ASSUME NEW b \in Data, WriteSpilled(b) \/ WriteUncached(b) PROVE StdioInv'
    BY <2>8, WriteSpilledStep, WriteUncachedStep
  <2>9. CASE Fsync \/ Close
    BY <2>9, FsyncStep, CloseStep
  <2>10. CASE UNCHANGED stdioVars
    BY <2>10 DEF stdioVars, StdioInv, StdioTypeOK, ReadsWhatWasWritten, BytesKept, PlaceKept
  <2>11. QED
    BY <2>1, <2>2, <2>3, <2>4, <2>5, <2>6, <2>7, <2>8, <2>9, <2>10 DEF StdioNext
<1>2. QED
  BY <1>1, StdioInitially, StdioFaithful, PTL DEF StdioSpec
=============================================================================
