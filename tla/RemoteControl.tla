----------------------------- MODULE RemoteControl -----------------------------
(***************************************************************************)
(* Who calls the mailbox.  The HTTP task (core 0) runs                     *)
(* RemoteService::ExchangeControl: it posts a request, polls for the       *)
(* response, and gives up on a timeout or a stop.  The emulator (core 1)   *)
(* calls CKernel::ProcessRemoteCommand at every safe point and             *)
(* CKernel::circle_sound_write for every block of sound.  A reboot stops   *)
(* the HTTP task from core 1 and waits until it is gone.                   *)
(***************************************************************************)
EXTENDS RemoteCapture

CONSTANTS MaxRequests,  \* requests one behaviour issues (a bound)
          MaxPolls,     \* polls before a timeout is certain (a bound)
          Offered       \* the operations clients ask for

ASSUME RemoteControlAssumption ==
  /\ MaxRequests \in Nat
  /\ MaxPolls \in Nat
  /\ Offered \subseteq Operations

VARIABLES httpPc,       \* where the HTTP task is
          exRequest,    \* ExchangeControl's request
          exToken,      \* its token
          exPolls,      \* its polls so far
          outcome,      \* what the last exchange returned
          httpPayloads, \* payloads owned by responses being written
          emuPc,        \* where the emulator core is
          emuRequest,   \* ProcessControlRequest's request
          emuToken,     \* its token (or CompleteAudioCapture's)
          emuResponse,  \* the response about to be handed over
          stop_requested, running,      \* RemoteService
          service,      \* mRemoteService # nullptr
          issued        \* requests issued so far

httpVars == <<httpPc, exRequest, exToken, exPolls, outcome, httpPayloads, issued>>
emuVars == <<emuPc, emuRequest, emuToken, emuResponse>>
serviceVars == <<stop_requested, running, service>>
vars == <<mailboxVars, captureVars, httpVars, emuVars, serviceVars>>

HttpPcs == {"Serve", "Poll", "Check", "CancelAudio", "Leaving", "Exited"}
EmuPcs == {"Run", "Take", "Process", "Complete", "Command", "Shutdown",
           "AwaitStopped", "Halted"}
Statuses == {"Ok", "Busy", "Unavailable", "Timeout"}

NoOutcome == [status |-> "Unavailable", request |-> NoRequest,
              response |-> NoResponse]

Init ==
  /\ MailboxInit
  /\ CaptureInit
  /\ httpPc = "Serve"
  /\ exRequest = NoRequest /\ exToken = 0 /\ exPolls = 0
  /\ outcome = NoOutcome
  /\ httpPayloads = {}
  /\ emuPc = "Run"
  /\ emuRequest = NoRequest /\ emuToken = 0 /\ emuResponse = NoResponse
  /\ stop_requested = FALSE /\ running = TRUE /\ service = TRUE
  /\ issued = 0

-----------------------------------------------------------------------------
(* The HTTP task. *)

\* The exchange ends with this status and response.
Return(status, response) ==
  /\ outcome' = [status |-> status, request |-> exRequest, response |-> response]
  /\ httpPc' = "Serve"
  /\ exRequest' = NoRequest /\ exToken' = 0 /\ exPolls' = 0

\* ExchangeControl up to PostControl: refused while stopping or while one
\* of the two cells is taken.
Exchange(op) ==
  /\ httpPc = "Serve" /\ issued < MaxRequests
  /\ issued' = issued + 1
  /\ LET request == [op |-> op, id |-> issued + 1] IN
     \/ /\ running /\ ~stop_requested
        /\ PostControl(request)
        /\ httpPc' = "Poll"
        /\ exRequest' = request
        /\ exToken' = control_token'
        /\ UNCHANGED <<exPolls, outcome>>
     \/ /\ ~(running /\ ~stop_requested /\ Accepting)
        /\ outcome' = [status |-> IF running /\ ~stop_requested
                                  THEN "Busy" ELSE "Unavailable",
                       request |-> request, response |-> NoResponse]
        /\ UNCHANGED <<mailboxVars, httpPc, exRequest, exToken, exPolls>>
  /\ UNCHANGED <<captureVars, httpPayloads, emuVars, serviceVars>>

\* One PollControl of the loop.  A payload now belongs to the response.
ExchangePoll ==
  /\ httpPc = "Poll"
  /\ PollControl(exToken)
  /\ CASE PollStatus(exToken) = "Complete" ->
            /\ Return("Ok", control_response)
            /\ httpPayloads' = httpPayloads \cup
                 ({control_response.binary} \ {NoPayload})
       [] PollStatus(exToken) = "Missing" ->
            /\ Return("Unavailable", NoResponse)
            /\ UNCHANGED httpPayloads
       [] OTHER ->
            /\ httpPc' = "Check"
            /\ UNCHANGED <<exRequest, exToken, exPolls, outcome, httpPayloads>>
  /\ UNCHANGED <<captureVars, emuVars, serviceVars, issued>>

\* Mutant: a stopping service still waits for a posted request to be taken.
ExchangeStoppedOnceTaken ==
  /\ httpPc = "Check" /\ stop_requested /\ control_state # "Posted"
  /\ Return("Unavailable", NoResponse)
  /\ UNCHANGED <<mailboxVars, captureVars, httpPayloads, emuVars, serviceVars,
                 issued>>

\* After a pending poll: the stop flag, which leaves the cell as it is ...
ExchangeStopped ==
  /\ httpPc = "Check" /\ stop_requested
  /\ Return("Unavailable", NoResponse)
  /\ UNCHANGED <<mailboxVars, captureVars, httpPayloads, emuVars, serviceVars,
                 issued>>

\* ... the timeout, which withdraws the request and frees a response that
\* arrived since the poll ...
ExchangeTimeout ==
  /\ httpPc = "Check" /\ ~stop_requested
  /\ CancelControl(exToken)
  /\ ReleaseBinaryPayload({CancelledPayload(exToken)} \ {NoPayload})
  /\ IF exRequest.op = "Audio"
     THEN /\ httpPc' = "CancelAudio"
          /\ UNCHANGED <<exRequest, exToken, exPolls, outcome>>
     ELSE Return("Timeout", NoResponse)
  /\ UNCHANGED <<audioVars, audio_cancel_token, httpPayloads, emuVars,
                 serviceVars, issued>>

\* ... or a sleep and another round.
ExchangeSleep ==
  /\ httpPc = "Check" /\ ~stop_requested
  /\ exPolls < MaxPolls
  /\ exPolls' = exPolls + 1
  /\ httpPc' = "Poll"
  /\ UNCHANGED <<mailboxVars, captureVars, exRequest, exToken, outcome,
                 httpPayloads, emuVars, serviceVars, issued>>

\* The last act of a timed-out audio exchange.
ExchangeCancelAudio ==
  /\ httpPc = "CancelAudio"
  /\ RequestAudioCancel(exToken)
  /\ Return("Timeout", NoResponse)
  /\ UNCHANGED <<mailboxVars, audioVars, screenshot_in_use, allocated,
                 httpPayloads, emuVars, serviceVars, issued>>

\* A response has been written: its completion frees the payload.
ResponseDone(p) ==
  /\ httpPc = "Serve" /\ p \in httpPayloads
  /\ httpPayloads' = httpPayloads \ {p}
  /\ ReleaseBinaryPayload({p})
  /\ UNCHANGED <<mailboxVars, audioVars, audio_cancel_token, httpPc, exRequest,
                 exToken, exPolls, outcome, emuVars, serviceVars, issued>>

\* The completion of a reboot response (or of a rebooting upload) posts the
\* command; the result of Post is ignored.
RebootCompletion ==
  /\ httpPc = "Serve" /\ issued < MaxRequests
  /\ issued' = issued + 1
  /\ Post("SystemReboot")
  /\ UNCHANGED <<captureVars, httpPc, exRequest, exToken, exPolls, outcome,
                 httpPayloads, emuVars, serviceVars>>

\* RemoteService::Run leaves its loop on a stop request or a listener error, and
\* HttpServer::Stop completes every response.
RunStop ==
  /\ httpPc = "Serve"
  /\ httpPc' = "Leaving"
  /\ httpPayloads' = {}
  /\ ReleaseBinaryPayload(httpPayloads)
  /\ UNCHANGED <<mailboxVars, audioVars, audio_cancel_token, exRequest, exToken,
                 exPolls, outcome, issued, emuVars, serviceVars>>

\* running_ is cleared as the last use of the service.
RunExit ==
  /\ httpPc = "Leaving"
  /\ httpPc' = "Exited"
  /\ running' = FALSE
  /\ UNCHANGED <<mailboxVars, captureVars, exRequest, exToken, exPolls, outcome,
                 httpPayloads, issued, emuVars, stop_requested, service>>

-----------------------------------------------------------------------------
(* The emulator core. *)

\* ProcessRemoteCommand begins: nothing without a service, else a pending
\* audio cancellation is applied.
SafePoint ==
  /\ emuPc = "Run" /\ service
  /\ PumpAudioCancel
  /\ emuPc' = "Take"
  /\ UNCHANGED <<mailboxVars, httpVars, emuRequest, emuToken, emuResponse,
                 serviceVars>>

ProcessControlRequest ==
  /\ emuPc = "Take"
  /\ \/ /\ TakeControl
        /\ emuRequest' = control_request
        /\ emuToken' = control_token
        /\ emuPc' = "Process"
     \/ /\ control_state # "Posted"
        /\ emuPc' = "Command"
        /\ UNCHANGED <<mailboxVars, emuRequest, emuToken>>
  /\ UNCHANGED <<captureVars, httpVars, emuResponse, serviceVars>>

\* The handler built its response; CompleteControl is next.
Respond(payload) ==
  /\ emuResponse' = [id |-> emuRequest.id, binary |-> payload]
  /\ emuPc' = "Complete"
  /\ UNCHANGED <<emuRequest, emuToken>>

\* An operation without a payload, or one that failed.
HandlePlain ==
  /\ emuPc = "Process" /\ emuRequest.op # "Audio"
  /\ Respond(NoPayload)
  /\ UNCHANGED <<mailboxVars, captureVars, httpVars, serviceVars>>

HandleMemory ==
  /\ emuPc = "Process" /\ emuRequest.op = "Memory"
  /\ Respond([kind |-> "heap", id |-> emuRequest.id])
  /\ allocated' = allocated \cup {[kind |-> "heap", id |-> emuRequest.id]}
  /\ UNCHANGED <<mailboxVars, audioVars, audio_cancel_token, screenshot_in_use,
                 httpVars, serviceVars>>

HandleScreenshot ==
  /\ emuPc = "Process" /\ emuRequest.op = "Screenshot"
  /\ Screenshot(emuRequest.id)
  /\ Respond([kind |-> "shot", id |-> emuRequest.id])
  /\ UNCHANGED <<mailboxVars, httpVars, serviceVars>>

\* BeginAudio took the request over: no response now.
HandleAudio ==
  /\ emuPc = "Process" /\ emuRequest.op = "Audio"
  /\ \E chunks \in 1 .. AudioChunks :
       BeginAudio(emuToken, emuRequest.id, chunks)
  /\ emuPc' = "Command"
  /\ emuRequest' = NoRequest /\ emuToken' = 0
  /\ UNCHANGED <<mailboxVars, httpVars, emuResponse, serviceVars>>

\* BeginAudio refused: a capture is running, the duration is out of range
\* or the allocation failed.
HandleAudioRefused ==
  /\ emuPc = "Process" /\ emuRequest.op = "Audio"
  /\ PumpAudioCancel
  /\ Respond(NoPayload)
  /\ UNCHANGED <<mailboxVars, httpVars, serviceVars>>

\* CompleteControl; a payload it did not accept is freed.  Afterwards the
\* safe point goes on with TakeCommand, a sound write returns.
Complete ==
  /\ emuPc = "Complete"
  /\ CompleteControl(emuToken, emuResponse)
  /\ IF CompleteAccepted(emuToken)
     THEN UNCHANGED <<allocated, screenshot_in_use>>
     ELSE ReleaseBinaryPayload({emuResponse.binary} \ {NoPayload})
  /\ emuPc' = IF emuRequest = NoRequest THEN "Run" ELSE "Command"
  /\ emuRequest' = NoRequest /\ emuToken' = 0 /\ emuResponse' = NoResponse
  /\ UNCHANGED <<audioVars, audio_cancel_token, httpVars, serviceVars>>

\* circle_sound_write feeds the capture; the write that fills it continues
\* with CompleteControl (CompleteAudioCapture).
SoundWrite ==
  /\ emuPc = "Run" /\ service
  /\ \/ /\ AppendAudioPart
        /\ UNCHANGED emuVars
     \/ /\ AppendAudioLast
        /\ emuPc' = "Complete"
        /\ emuToken' = audio_token
        /\ emuResponse' = [id |-> audio.id, binary |-> audio]
        /\ UNCHANGED emuRequest
  /\ UNCHANGED <<mailboxVars, httpVars, serviceVars>>

\* TakeCommand.  The emulator's own shutdown may refuse the reboot.
ProcessRemoteCommand ==
  /\ emuPc = "Command"
  /\ Take
  /\ \/ command = "SystemReboot" /\ emuPc' = "Shutdown"
     \/ emuPc' = "Run"
  /\ UNCHANGED <<captureVars, httpVars, emuRequest, emuToken, emuResponse,
                 serviceVars>>

\* RemoteService::Stop on core 1: raise the flag ...
Stop ==
  /\ emuPc = "Shutdown"
  /\ stop_requested' = TRUE
  /\ emuPc' = "AwaitStopped"
  /\ UNCHANGED <<mailboxVars, captureVars, httpVars, emuRequest, emuToken,
                 emuResponse, running, service>>

\* ... spin while running(), then delete the service (~RemoteCapture frees
\* a capture in progress); a failed storage shutdown cancels the reboot.
Stopped ==
  /\ emuPc = "AwaitStopped" /\ ~running
  /\ service' = FALSE
  /\ ResetAudio
  /\ emuPc' \in {"Halted", "Run"}
  /\ UNCHANGED <<mailboxVars, audio_cancel_token, screenshot_in_use, httpVars,
                 emuRequest, emuToken, emuResponse, stop_requested, running>>

\* The machine resets, or runs on without a remote service.
Idle ==
  /\ emuPc = "Halted" \/ ~service
  /\ UNCHANGED vars

-----------------------------------------------------------------------------

ExchangeStep == \/ ExchangePoll \/ ExchangeStopped \/ ExchangeTimeout
                \/ ExchangeSleep \/ ExchangeCancelAudio

Http == \/ \E op \in Offered : Exchange(op)
        \/ ExchangeStep
        \/ \E p \in httpPayloads : ResponseDone(p)
        \/ RebootCompletion
        \/ RunStop \/ RunExit

\* The steps of ProcessRemoteCommand, one after the other.
SafePointStep ==
  \/ SafePoint \/ ProcessControlRequest
  \/ HandlePlain \/ HandleMemory \/ HandleScreenshot
  \/ HandleAudio \/ HandleAudioRefused
  \/ Complete \/ ProcessRemoteCommand \/ Stop \/ Stopped

Emulator == SafePointStep \/ SoundWrite

Next == Http \/ Emulator \/ Idle

Spec == Init /\ [][Next]_vars

\* The Circle scheduler keeps running the HTTP task, VICE keeps reaching its
\* safe point and keeps producing sound, and a stopping server loop leaves.
Fairness ==
  /\ WF_vars(ExchangeStep)
  /\ WF_vars(SafePointStep)
  /\ SF_vars(SoundWrite)
  /\ WF_vars(stop_requested /\ RunStop)
  /\ WF_vars(RunExit)

FairSpec == Spec /\ Fairness

-----------------------------------------------------------------------------
(* Properties. *)

TypeOK ==
  /\ MailboxTypeOK
  /\ CaptureTypeOK
  /\ httpPc \in HttpPcs
  /\ exRequest \in Requests /\ exToken \in 0 .. TokenLimit /\ exPolls \in Nat
  /\ outcome \in [status : Statuses, request : Requests, response : Responses]
  /\ httpPayloads \in SUBSET Payloads
  /\ emuPc \in EmuPcs
  /\ emuRequest \in Requests /\ emuToken \in 0 .. TokenLimit
  /\ emuResponse \in Responses
  /\ stop_requested \in BOOLEAN /\ running \in BOOLEAN /\ service \in BOOLEAN
  /\ issued \in Nat

\* Whatever was abandoned, reset or taken over before, an exchange that
\* returns Ok returns the response to the request it posted: tokens keep
\* late answers apart although they wrap (ExchangeControl, PollControl).
AnswersOwnRequest ==
  outcome.status = "Ok" => outcome.response.id = outcome.request.id

\* The payload, as a set, of each possible owner.
PayloadSet(p) == {p} \ {NoPayload}
CellPayload == PayloadSet(control_response.binary)
EmuPayload == PayloadSet(emuResponse.binary)
AudioPayload == PayloadSet(audio)

\* While the service exists every buffer that is not free has exactly one
\* owner: a response being written, the cell, the handler or the capture.
\* No cancellation, timeout or refused completion leaks or shares one
\* (CancelControl's abandoned response, the release after CompleteControl).
PayloadOwnership ==
  service =>
    /\ allocated = httpPayloads \cup CellPayload \cup EmuPayload \cup AudioPayload
    /\ httpPayloads \cap (CellPayload \cup EmuPayload \cup AudioPayload) = {}
    /\ CellPayload \cap (EmuPayload \cup AudioPayload) = {}
    /\ EmuPayload \cap AudioPayload = {}

\* The one screenshot buffer is in use exactly while one payload refers to
\* it, so a new capture never overwrites a picture that is being sent
\* (AcquireScreenshotPpmBuffer, ReleaseScreenshotPpmBuffer).
ScreenshotBufferExclusive ==
  /\ screenshot_in_use <=> (\E p \in allocated : p.kind = "shot")
  /\ \A p, q \in allocated : p.kind = "shot" /\ q.kind = "shot" => p = q

\* The request a handler works on stays in the cell, pointer-backed text
\* included, until the handler completes it, even if the client gives up
\* ("Keep pointer-backed request data alive", CancelControl).
RequestStableWhileHandled ==
  emuPc = "Process" =>
    /\ control_state \in {"Running", "Abandoned"}
    /\ control_token = emuToken
    /\ control_request = emuRequest

\* A capture in progress belongs to the request that occupies the cell, so
\* its completion always finds its own token (BeginAudio, AppendAudio).
AudioOwnsCell ==
  (service /\ audio # NoPayload) =>
    /\ control_state \in {"Running", "Abandoned"}
    /\ control_token = audio_token
    /\ control_request.op = "Audio" /\ control_request.id = audio.id

\* Stop deletes the service on core 1 only when the HTTP task, which uses it
\* on core 0, has left Run (RemoteService::Stop, Run).
NoUseAfterDelete == ~service => httpPc = "Exited"

\* What the two cores share is at any time used by one of them: the payloads,
\* the screenshot buffer, the request in the cell, the cell of a capture and
\* the service itself.
HandlingIsolated ==
  /\ PayloadOwnership /\ ScreenshotBufferExclusive
  /\ RequestStableWhileHandled /\ AudioOwnsCell
  /\ NoUseAfterDelete

\* Every exchange returns, whatever the emulator does meanwhile.
ExchangeReturns == (httpPc \in {"Poll", "Check", "CancelAudio"}) ~> (httpPc = "Serve")

\* Core 1 does not spin forever in Stop: the HTTP task always gets out of an
\* exchange with core 1, which no longer answers.
StopTerminates == (emuPc = "AwaitStopped") ~> (emuPc # "AwaitStopped")

\* "Keep pointer-backed request data alive until the safe-point consumer
\* finishes. CompleteControl() will release the slot." (CancelControl)
AbandonedCellReleased == (control_state = "Abandoned") ~> (control_state = "Empty")

\* The same for the requests that the safe point answers before it moves on:
\* all but an audio capture.
HandledCellReleased ==
  (control_state = "Abandoned" /\ control_request.op # "Audio") ~> (control_state = "Empty")

-----------------------------------------------------------------------------
(* The inductive strengthening of the safety properties above (proved in   *)
(* RemoteControlProofs).                                                   *)

\* A free cell has no token, a taken one a request with an operation.
CellShape ==
  /\ control_state = "Empty" <=> control_token = 0
  /\ control_state # "Empty" => control_request.op \in Operations
  /\ control_state = "Complete" => control_response.id = control_request.id

\* An exchange that still polls finds its own request in the cell.
ClientOwnsCell ==
  httpPc \in {"Poll", "Check"} =>
    /\ control_state \in {"Posted", "Running", "Complete"}
    /\ control_token = exToken
    /\ control_request = exRequest

\* So does the handler, and no capture runs beside it.
HandlerOwnsCell ==
  emuPc \in {"Process", "Complete"} =>
    /\ control_state \in {"Running", "Abandoned"}
    /\ control_token = emuToken
    /\ emuPc = "Process" => control_request = emuRequest
    /\ emuPc = "Complete" => control_request.id = emuResponse.id
    /\ service
    /\ audio = NoPayload

\* The life cycle of the service.
Lifecycle ==
  /\ running <=> httpPc # "Exited"
  /\ ~service => ~running /\ audio = NoPayload
  /\ emuPc \in {"Take", "Process", "Complete", "Command", "Shutdown",
                "AwaitStopped"} => service

\* What the proof of the safety properties carries along.
RemoteControlInv ==
  /\ TypeOK /\ CellShape /\ ClientOwnsCell /\ HandlerOwnsCell /\ Lifecycle
  /\ AnswersOwnRequest /\ AudioOwnsCell

\* Payloads carry the number of the request they answer, and a request has
\* at most one: those on their way to a client answer earlier requests.
PayloadIds ==
  /\ control_request.id <= issued
  /\ \A p \in httpPayloads :
       /\ p # NoPayload /\ p.id <= issued
       /\ control_state # "Empty" => p.id # control_request.id
  /\ control_state # "Complete" => control_response = NoResponse
  /\ control_response.binary # NoPayload =>
       control_response.binary.id = control_response.id
  /\ emuPc # "Complete" => emuResponse = NoResponse
  /\ emuResponse.binary # NoPayload => emuResponse.binary.id = emuResponse.id
  /\ audio.kind # "shot"

\* What the proof of the payload properties carries along.
PayloadInv == PayloadIds /\ PayloadOwnership /\ ScreenshotBufferExclusive
=============================================================================
