----------------------------- MODULE RemoteCapture -----------------------------
(***************************************************************************)
(* remote/remote_capture.{h,cpp}: the one audio capture in progress and    *)
(* the one screenshot buffer.  Everything here runs on the emulator core   *)
(* except RequestAudioCancel and the release of a payload, which the HTTP  *)
(* task performs on core 0.                                                *)
(***************************************************************************)
EXTENDS CommandMailbox

CONSTANT AudioChunks    \* sound writes that fill the longest capture

ASSUME AudioChunksAssumption == AudioChunks \in Nat /\ AudioChunks >= 1

VARIABLES audio,                \* audio_: the buffer being filled, or none
          audio_left,           \* audio_capacity_ - audio_size_, in chunks
          audio_token,          \* audio_token_
          audio_cancel_token,   \* audio_cancel_token_
          screenshot_in_use,    \* g_screenshot_ppm_in_use
          allocated             \* the payload buffers that are not free

audioVars == <<audio, audio_left, audio_token>>
captureVars == <<audio, audio_left, audio_token, audio_cancel_token,
                 screenshot_in_use, allocated>>

CaptureInit ==
  /\ audio = NoPayload
  /\ audio_left = 0
  /\ audio_token = 0
  /\ audio_cancel_token = 0
  /\ screenshot_in_use = FALSE
  /\ allocated = {}

\* ReleaseBinaryPayload of every payload of ps; releasing the screenshot
\* buffer clears its in-use flag.
ReleaseBinaryPayload(ps) ==
  /\ allocated' = allocated \ ps
  /\ screenshot_in_use' =
       (screenshot_in_use /\ \A p \in ps : p.kind # "shot")

ResetAudio ==
  /\ audio' = NoPayload
  /\ audio_left' = 0
  /\ audio_token' = 0
  /\ allocated' = allocated \ {audio}

RequestAudioCancel(token) ==
  audio_cancel_token' = IF token # 0 THEN token ELSE audio_cancel_token

CancelMatches == audio_cancel_token # 0 /\ audio_cancel_token = audio_token

PumpAudioCancel ==
  /\ audio_cancel_token' = 0
  /\ IF CancelMatches THEN ResetAudio
                      ELSE UNCHANGED <<audio, audio_left, audio_token, allocated>>
  /\ UNCHANGED screenshot_in_use

\* BeginAudio pumps a pending cancellation first and refuses to start while
\* another capture is still being filled.
CanBeginAudio == audio = NoPayload \/ CancelMatches

BeginAudio(token, id, chunks) ==
  /\ CanBeginAudio
  /\ audio_cancel_token' = 0
  /\ audio' = [kind |-> "heap", id |-> id]
  /\ audio_left' = chunks
  /\ audio_token' = token
  /\ allocated' = (allocated \ {audio}) \cup {[kind |-> "heap", id |-> id]}
  /\ UNCHANGED screenshot_in_use

\* One sound write that does not fill the buffer.
AppendAudioPart ==
  /\ audio # NoPayload /\ audio_left > 1
  /\ audio_left' = audio_left - 1
  /\ UNCHANGED <<audio, audio_token, audio_cancel_token, screenshot_in_use,
                 allocated>>

\* The sound write that fills it: the buffer leaves as the payload.
AppendAudioLast ==
  /\ audio # NoPayload /\ audio_left = 1
  /\ audio' = NoPayload
  /\ audio_left' = 0
  /\ audio_token' = 0
  /\ UNCHANGED <<audio_cancel_token, screenshot_in_use, allocated>>

\* AcquireScreenshotPpmBuffer: a compare-and-swap of the in-use flag.
Screenshot(id) ==
  /\ ~screenshot_in_use
  /\ screenshot_in_use' = TRUE
  /\ allocated' = allocated \cup {[kind |-> "shot", id |-> id]}
  /\ UNCHANGED <<audio, audio_left, audio_token, audio_cancel_token>>

CaptureTypeOK ==
  /\ audio \in Payloads
  /\ audio_left \in 0 .. AudioChunks
  /\ audio_token \in 0 .. TokenLimit
  /\ audio_cancel_token \in 0 .. TokenLimit
  /\ screenshot_in_use \in BOOLEAN
  /\ allocated \in SUBSET Payloads
=============================================================================
