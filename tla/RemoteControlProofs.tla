-------------------------- MODULE RemoteControlProofs --------------------------
(***************************************************************************)
(* The safety properties of RemoteControl for every number of tokens,      *)
(* requests, polls and sound chunks.  RemoteControlInv is inductive: one   *)
(* step below for each action of Next.                                     *)
(***************************************************************************)
EXTENDS RemoteControl, TLAPS

USE TokenLimitAssumption, AudioChunksAssumption, RemoteControlAssumption

(* What every step has to look at. *)
USE DEF vars, mailboxVars, controlVars, captureVars, audioVars, httpVars,
        emuVars, serviceVars,
        TypeOK, MailboxTypeOK, CaptureTypeOK, HttpPcs, EmuPcs, Statuses,
        Commands, ControlStates, Operations, Requests, Payloads, Responses,
        NoRequest, NoPayload, NoResponse,
        CellShape, ClientOwnsCell, HandlerOwnsCell, Lifecycle,
        AnswersOwnRequest, AudioOwnsCell, RemoteControlInv

\* The initial state of the service satisfies the inductive invariant.
LEMMA RemoteControlInit == Init => RemoteControlInv
  <1> SUFFICES ASSUME Init PROVE RemoteControlInv
    OBVIOUS
  <1> USE DEF Init, MailboxInit, CaptureInit, NoOutcome
  <1>1. MailboxTypeOK /\ CellShape
    OBVIOUS
  <1>2. CaptureTypeOK
    <2>1. screenshot_in_use \in BOOLEAN
      BY Zenon
    <2> QED
      BY <2>1
  <1>3. TypeOK
    BY <1>1, <1>2
  <1>4. ClientOwnsCell /\ HandlerOwnsCell /\ AnswersOwnRequest /\ AudioOwnsCell
    OBVIOUS
  <1>5. Lifecycle
    OBVIOUS
  <1> QED
    BY <1>1, <1>3, <1>4, <1>5

\* Every step of the HTTP task and of the emulator core preserves it.
LEMMA RemoteControlStep == RemoteControlInv /\ [Next]_vars => RemoteControlInv'
  <1> SUFFICES ASSUME RemoteControlInv, [Next]_vars PROVE RemoteControlInv'
    OBVIOUS
  <1>1. ASSUME NEW op \in Offered, Exchange(op) PROVE RemoteControlInv'
    BY <1>1 DEF Exchange, PostControl, NextToken, Accepting
  <1>2. CASE ExchangePoll
    BY <1>2 DEF ExchangePoll, PollControl, PollStatus, ResetControlLocked, Return
  <1>3. CASE ExchangeStopped
    BY <1>3 DEF ExchangeStopped, Return
  <1>4. CASE ExchangeTimeout
    BY <1>4 DEF ExchangeTimeout, CancelControl, CancelledPayload, ReleaseBinaryPayload, ResetControlLocked, Return
  <1>5. CASE ExchangeSleep
    BY <1>5 DEF ExchangeSleep
  <1>6. CASE ExchangeCancelAudio
    BY <1>6 DEF ExchangeCancelAudio, RequestAudioCancel, Return
  <1>7. ASSUME NEW p \in httpPayloads, ResponseDone(p) PROVE RemoteControlInv'
    BY <1>7 DEF ResponseDone, ReleaseBinaryPayload
  <1>8. CASE RebootCompletion
    BY <1>8 DEF RebootCompletion, Post, Accepting
  <1>9. CASE RunStop
    <2> USE <1>9 DEF RunStop, ReleaseBinaryPayload
    <2>1. MailboxTypeOK' /\ CellShape'
      OBVIOUS
    <2>2. /\ screenshot_in_use' \in BOOLEAN
          /\ running' \in BOOLEAN
          /\ service' \in BOOLEAN
      BY Zenon
    <2>3. TypeOK'
      BY <2>1, <2>2
    <2>4. ClientOwnsCell' /\ HandlerOwnsCell'
      OBVIOUS
    <2>5. Lifecycle'
      OBVIOUS
    <2>6. AnswersOwnRequest' /\ AudioOwnsCell'
      OBVIOUS
    <2> QED
      BY <2>1, <2>3, <2>4, <2>5, <2>6
  <1>23. CASE RunExit
    <2> USE <1>23 DEF RunExit
    <2>1. MailboxTypeOK' /\ CellShape'
      OBVIOUS
    <2>2. /\ screenshot_in_use' \in BOOLEAN
          /\ running' \in BOOLEAN
          /\ service' \in BOOLEAN
      BY Zenon
    <2>3. TypeOK'
      BY <2>1, <2>2
    <2>4. ClientOwnsCell' /\ HandlerOwnsCell'
      OBVIOUS
    <2>5. Lifecycle'
      OBVIOUS
    <2>6. AnswersOwnRequest' /\ AudioOwnsCell'
      OBVIOUS
    <2> QED
      BY <2>1, <2>3, <2>4, <2>5, <2>6
  <1>10. CASE SafePoint
    BY <1>10 DEF SafePoint, PumpAudioCancel, CancelMatches, ResetAudio
  <1>11. CASE ProcessControlRequest
    BY <1>11 DEF ProcessControlRequest, TakeControl
  <1>12. CASE HandlePlain
    BY <1>12 DEF HandlePlain, Respond
  <1>13. CASE HandleMemory
    BY <1>13 DEF HandleMemory, Respond
  <1>14. CASE HandleScreenshot
    BY <1>14 DEF HandleScreenshot, Screenshot, Respond
  <1>15. CASE HandleAudio
    BY <1>15 DEF HandleAudio, BeginAudio, CanBeginAudio, CancelMatches
  <1>16. CASE HandleAudioRefused
    BY <1>16 DEF HandleAudioRefused, PumpAudioCancel, CancelMatches, ResetAudio, Respond
  <1>17. CASE Complete
    <2> USE <1>17 DEF Complete, CompleteControl, CompleteAccepted, ReleaseBinaryPayload, ResetControlLocked
    <2>1. MailboxTypeOK' /\ CellShape'
      OBVIOUS
    <2>2. /\ screenshot_in_use' \in BOOLEAN
          /\ running' \in BOOLEAN
          /\ service' \in BOOLEAN
      BY Zenon
    <2>3. TypeOK'
      BY <2>1, <2>2
    <2>4. ClientOwnsCell' /\ HandlerOwnsCell'
      OBVIOUS
    <2>5. Lifecycle'
      OBVIOUS
    <2>6. AnswersOwnRequest' /\ AudioOwnsCell'
      OBVIOUS
    <2> QED
      BY <2>1, <2>3, <2>4, <2>5, <2>6
  <1>18. CASE SoundWrite
    BY <1>18 DEF SoundWrite, AppendAudioPart, AppendAudioLast
  <1>19. CASE ProcessRemoteCommand
    BY <1>19 DEF ProcessRemoteCommand, Take
  <1>20. CASE Stop
    BY <1>20 DEF Stop
  <1>21. CASE Stopped
    <2> USE <1>21 DEF Stopped, ResetAudio
    <2>1. MailboxTypeOK' /\ CellShape'
      OBVIOUS
    <2>2. /\ screenshot_in_use' \in BOOLEAN
          /\ running' \in BOOLEAN
          /\ service' \in BOOLEAN
      BY Zenon
    <2>3. TypeOK'
      BY <2>1, <2>2
    <2>4. ClientOwnsCell' /\ HandlerOwnsCell'
      OBVIOUS
    <2>5. Lifecycle'
      OBVIOUS
    <2>6. AnswersOwnRequest' /\ AudioOwnsCell'
      OBVIOUS
    <2> QED
      BY <2>1, <2>3, <2>4, <2>5, <2>6
  <1>22. CASE Idle \/ UNCHANGED vars
    BY <1>22 DEF Idle
  <1> QED
    BY <1>1, <1>2, <1>3, <1>4, <1>5, <1>6, <1>7, <1>8, <1>9, <1>10, <1>11, <1>12, <1>13, <1>14, <1>15, <1>16, <1>17, <1>18, <1>19, <1>20, <1>21, <1>22, <1>23 DEF Next, Http, Emulator, ExchangeStep, SafePointStep

-----------------------------------------------------------------------------

USE DEF PayloadSet, CellPayload, EmuPayload, AudioPayload, PayloadIds,
        PayloadOwnership, ScreenshotBufferExclusive, PayloadInv

\* No buffer is allocated initially.
LEMMA PayloadInit == Init => PayloadInv
  BY DEF Init, MailboxInit, CaptureInit, NoOutcome

\* Releasing allocated payloads keeps the screenshot flag exact.
LEMMA ReleaseKeepsExclusive ==
  ASSUME NEW ps, ps \subseteq allocated, ScreenshotBufferExclusive,
         ReleaseBinaryPayload(ps)
  PROVE  ScreenshotBufferExclusive'
  BY DEF ReleaseBinaryPayload

\* Every step keeps one owner for each allocated buffer.
LEMMA PayloadStep ==
  RemoteControlInv /\ PayloadInv /\ [Next]_vars => PayloadInv'
  <1> SUFFICES ASSUME RemoteControlInv, PayloadInv, [Next]_vars PROVE PayloadInv'
    OBVIOUS
  <1>1. ASSUME NEW op \in Offered, Exchange(op) PROVE PayloadInv'
    BY <1>1 DEF Exchange, PostControl, NextToken, Accepting
  <1>2. CASE ExchangePoll
    BY <1>2 DEF ExchangePoll, PollControl, PollStatus, ResetControlLocked, Return
  <1>3. CASE ExchangeStopped
    BY <1>3 DEF ExchangeStopped, Return
  <1>4. CASE ExchangeTimeout
    BY <1>4 DEF ExchangeTimeout, CancelControl, CancelledPayload, ReleaseBinaryPayload, ResetControlLocked, Return
  <1>5. CASE ExchangeSleep
    BY <1>5 DEF ExchangeSleep
  <1>6. CASE ExchangeCancelAudio
    BY <1>6 DEF ExchangeCancelAudio, RequestAudioCancel, Return
  <1>7. ASSUME NEW p \in httpPayloads, ResponseDone(p) PROVE PayloadInv'
    <2>1. PayloadIds'
      BY <1>7 DEF ResponseDone
    <2>2. PayloadOwnership'
      BY <1>7 DEF ResponseDone, ReleaseBinaryPayload
    <2>3. ScreenshotBufferExclusive'
      BY <1>7, ReleaseKeepsExclusive DEF ResponseDone
    <2> QED
      BY <2>1, <2>2, <2>3
  <1>8. CASE RebootCompletion
    BY <1>8 DEF RebootCompletion, Post, Accepting
  <1>9. CASE RunStop
    <2>1. PayloadIds'
      BY <1>9 DEF RunStop
    <2>2. PayloadOwnership'
      BY <1>9 DEF RunStop, ReleaseBinaryPayload
    <2>3. ScreenshotBufferExclusive'
      BY <1>9, ReleaseKeepsExclusive DEF RunStop
    <2> QED
      BY <2>1, <2>2, <2>3
  <1>23. CASE RunExit
    <2>1. PayloadIds'
      BY <1>23 DEF RunExit
    <2>2. PayloadOwnership'
      BY <1>23 DEF RunExit
    <2>3. ScreenshotBufferExclusive'
      BY <1>23 DEF RunExit
    <2> QED
      BY <2>1, <2>2, <2>3
  <1>10. CASE SafePoint
    <2> USE <1>10 DEF SafePoint, PumpAudioCancel, CancelMatches, ResetAudio
    <2>1. PayloadIds'
      OBVIOUS
    <2>2. PayloadOwnership'
      OBVIOUS
    <2>3. ScreenshotBufferExclusive'
      OBVIOUS
    <2> QED
      BY <2>1, <2>2, <2>3
  <1>11. CASE ProcessControlRequest
    BY <1>11 DEF ProcessControlRequest, TakeControl
  <1>12. CASE HandlePlain
    BY <1>12 DEF HandlePlain, Respond
  <1>13. CASE HandleMemory
    BY <1>13 DEF HandleMemory, Respond
  <1>14. CASE HandleScreenshot
    BY <1>14 DEF HandleScreenshot, Screenshot, Respond
  <1>15. CASE HandleAudio
    <2> USE <1>15 DEF HandleAudio, BeginAudio, CanBeginAudio, CancelMatches
    <2>1. PayloadIds'
      OBVIOUS
    <2>2. PayloadOwnership'
      OBVIOUS
    <2>3. ScreenshotBufferExclusive'
      OBVIOUS
    <2> QED
      BY <2>1, <2>2, <2>3
  <1>16. CASE HandleAudioRefused
    <2> USE <1>16 DEF HandleAudioRefused, PumpAudioCancel, CancelMatches, ResetAudio, Respond
    <2>1. PayloadIds'
      OBVIOUS
    <2>2. PayloadOwnership'
      OBVIOUS
    <2>3. ScreenshotBufferExclusive'
      OBVIOUS
    <2> QED
      BY <2>1, <2>2, <2>3
  <1>17. CASE Complete
    <2> USE <1>17 DEF Complete
    <2>1. PayloadIds'
      BY DEF CompleteControl, CompleteAccepted, ResetControlLocked
    <2>2. PayloadOwnership'
      BY DEF CompleteControl, CompleteAccepted, ResetControlLocked, ReleaseBinaryPayload
    <2>3. ScreenshotBufferExclusive'
      BY ReleaseKeepsExclusive
    <2> QED
      BY <2>1, <2>2, <2>3
  <1>18. CASE SoundWrite
    BY <1>18 DEF SoundWrite, AppendAudioPart, AppendAudioLast
  <1>19. CASE ProcessRemoteCommand
    BY <1>19 DEF ProcessRemoteCommand, Take
  <1>20. CASE Stop
    BY <1>20 DEF Stop
  <1>21. CASE Stopped
    BY <1>21 DEF Stopped, ResetAudio
  <1>22. CASE Idle \/ UNCHANGED vars
    BY <1>22 DEF Idle
  <1> QED
    BY <1>1, <1>2, <1>3, <1>4, <1>5, <1>6, <1>7, <1>8, <1>9, <1>10, <1>11, <1>12, <1>13, <1>14, <1>15, <1>16, <1>17, <1>18, <1>19, <1>20, <1>21, <1>22, <1>23 DEF Next, Http, Emulator, ExchangeStep, SafePointStep

-----------------------------------------------------------------------------

HIDE DEF vars, TypeOK, AnswersOwnRequest, AudioOwnsCell, RemoteControlInv,
         PayloadOwnership, ScreenshotBufferExclusive, PayloadInv

\* Both invariants hold in every reachable state.
LEMMA RemoteControlInvariant == Spec => [](RemoteControlInv /\ PayloadInv)
  <1>1. Init => RemoteControlInv /\ PayloadInv
    BY RemoteControlInit, PayloadInit
  <1>2. (RemoteControlInv /\ PayloadInv) /\ [Next]_vars
        => (RemoteControlInv /\ PayloadInv)'
    BY RemoteControlStep, PayloadStep
  <1> QED
    BY <1>1, <1>2, PTL DEF Spec

\* Type correctness of mailbox, capture, exchange and service state.
THEOREM TypeCorrect == Spec => []TypeOK
  <1>1. RemoteControlInv => TypeOK
    BY DEF RemoteControlInv
  <1> QED
    BY <1>1, RemoteControlInvariant, PTL

\* An exchange that returns Ok returns the response to its own request, for
\* any token width.
THEOREM AnswersAreOwn == Spec => []AnswersOwnRequest
  <1>1. RemoteControlInv => AnswersOwnRequest
    BY DEF RemoteControlInv
  <1> QED
    BY <1>1, RemoteControlInvariant, PTL

\* No payload buffer leaks, is shared or is freed twice while the service
\* exists.
THEOREM PayloadsOwned == Spec => []PayloadOwnership
  <1>1. PayloadInv => PayloadOwnership
    BY DEF PayloadInv
  <1> QED
    BY <1>1, RemoteControlInvariant, PTL

\* The screenshot buffer has at most one user and its flag is exact.
THEOREM ScreenshotExclusive == Spec => []ScreenshotBufferExclusive
  <1>1. PayloadInv => ScreenshotBufferExclusive
    BY DEF PayloadInv
  <1> QED
    BY <1>1, RemoteControlInvariant, PTL

\* The request a handler works on is not reused under it, even when the
\* client has given up.
THEOREM RequestStable == Spec => []RequestStableWhileHandled
  <1>1. RemoteControlInv => RequestStableWhileHandled
    BY DEF RemoteControlInv, RequestStableWhileHandled
  <1> QED
    BY <1>1, RemoteControlInvariant, PTL

\* A running capture belongs to the request in the cell.
THEOREM CaptureOwnsCell == Spec => []AudioOwnsCell
  <1>1. RemoteControlInv => AudioOwnsCell
    BY DEF RemoteControlInv
  <1> QED
    BY <1>1, RemoteControlInvariant, PTL

\* The service is deleted only after the HTTP task has left it.
THEOREM DeletedUnused == Spec => []NoUseAfterDelete
  <1>1. RemoteControlInv => NoUseAfterDelete
    BY DEF RemoteControlInv, NoUseAfterDelete
  <1> QED
    BY <1>1, RemoteControlInvariant, PTL

\* HandlingIsolated: all of these together, so that no interleaving of the two
\* cores, no timeout and no shutdown makes them use the same thing at once.
THEOREM HandlingIsIsolated == Spec => []HandlingIsolated
<1>1. HandlingIsolated <=> PayloadOwnership /\ ScreenshotBufferExclusive
                              /\ RequestStableWhileHandled /\ AudioOwnsCell /\ NoUseAfterDelete
  BY DEF HandlingIsolated
<1> QED
  BY <1>1, PayloadsOwned, ScreenshotExclusive, RequestStable, CaptureOwnsCell, DeletedUnused, PTL
=============================================================================
