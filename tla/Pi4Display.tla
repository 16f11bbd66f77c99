----------------------------- MODULE Pi4Display -----------------------------
(***************************************************************************)
(* Who calls the layers of Pi4Layers, and where they run (kernel.cpp).     *)
(*                                                                         *)
(* The emulator and its menu on core 1 make every call.  Until the native  *)
(* display is committed, core 0 runs the call (through the mailbox of      *)
(* Core0Mailbox, which this module takes for the remote call it is);       *)
(* afterwards core 1 runs it itself.  The display hardware goes on beside  *)
(* both.                                                                   *)
(***************************************************************************)
EXTENDS Pi4Layers

VARIABLE
  core        \* the core that runs the call in progress, or "none"

vars == <<kmsVars, layerVars, callVars, core>>

TypeOK == KmsTypeOK /\ LayersTypeOK /\ core \in {"none", "core0", "core1"}

Init == KmsInit /\ LayersInit /\ core = "none"

\* Mutant: core 1 always runs its calls itself.
ShouldDispatchNever == FALSE

\* ShouldDispatchPi4LegacyDisplayCall, asked on core 1.
ShouldDispatch == ~committed

\* The circle_*_fbl functions on core 1: submit the call to core 0, or run it
\* here.  Core 1 does nothing else until it has returned.
Core1Call(c) ==
  /\ Begin(c)
  /\ core' = IF ShouldDispatch THEN "core0" ELSE "core1"
  /\ UNCHANGED <<kmsVars, layerVars>>

\* The call runs on its core, ProcessCore0Request or circle_*_fbl ...
Run ==
  /\ LayerStep
  /\ UNCHANGED core

\* ... and returns.
Return ==
  /\ step = "Return"
  /\ step' = "Idle" /\ core' = "none"
  /\ call' = NoCall /\ frame' = "none"
  /\ UNCHANGED <<kmsVars, layerVars, planes, next>>

Hvs == VBlank /\ UNCHANGED <<layerVars, callVars, core>>

Next == (\E c \in Calls : Core1Call(c)) \/ Run \/ Return \/ Hvs

Spec == Init /\ [][Next]_vars

---------------------------------------------------------------------------
(* Properties.                                                              *)

Between == step = "Idle"

\* The HVS never scans, and is never told to scan, a list that is being
\* written: the list of a new frame is written into the slot that neither
\* register names, after a fence on the other one.
ScannedListWhole ==
  \A s \in ListSlots : (running /\ s \in {active, pending}) => list[s] # Torn

\* What is submitted is what was asked for: a cached template that is only
\* patched never shows an overlay that is gone or leaves out a new one.
ListAsRequested ==
  (step = "Verify") => list[SlotIndex] = planes

\* Every list the HVS is given is whole and the one that was asked for.
ListsSound == TypeOK /\ ScannedListWhole /\ ListAsRequested

\* From DISPLAY_DONE to the commit the firmware's list and registers are still
\* held, so that a failure can be undone; the commit happens only when the
\* pipeline runs with a list of the driver.
RecoverableUntilCommit ==
  /\ (claimed /\ ~committed) => saved
  /\ committed => running /\ active # FirmwareList /\ pending # FirmwareList

\* A takeover that fails at any step before the commit leaves the firmware's
\* picture on the screen, unless restoring it failed as well.
FirmwarePictureBack ==
  (Between /\ ~committed /\ ~restoreFailed) => (running /\ active = FirmwareList /\ pending = FirmwareList)

\* Until the commit the takeover can be undone, and is when it fails.
TakeoverRecoverable == RecoverableUntilCommit /\ FirmwarePictureBack

\* A picture the driver holds to be shown: between two calls, or as the first
\* native list at the end of a present.
OnScreen == running /\ ~restoreFailed /\ (Between \/ (step = "Verify" /\ active = pending))

\* No list is shown with the timing of another size (a native mode that failed is
\* not replaced by the firmware's mode under a list made for the native one), and
\* none with the clocks of another mode, with one exception: after a native mode of
\* the firmware's size has been given up, the clocks are not set back (see
\* FirmwareModeRebuilt).
SameSizeGivenUp == plan = "same" /\ (nativeModeFailed \/ takeoverFailed)
TimingFitsList ==
  OnScreen => /\ Fits(active, timing)
              /\ (clocks = timing \/ SameSizeGivenUp)

\* The takeover can be undone until it is committed, is when it fails, and never
\* mixes the lists of one mode with the timing of another, nor, where the size
\* differs, the timing of one mode with the clocks of another.
TakeoverSound == TakeoverRecoverable /\ TimingFitsList

\* RestartDisplayPipeline: "Rebuild the captured, already-working firmware mode ...:
\* clocks/PHY and HDMI timing first".  When the pipeline is in the firmware's mode
\* again it has the firmware's clocks.
FirmwareModeRebuilt == (OnScreen /\ timing = "firmware") => clocks = "firmware"

\* When a synchronised frame is rendered, the target of the V3D and the overlay
\* buffer that will be filled are not in a list that is scanned or about to be,
\* provided that the frame rendered before is the one submitted last.
FencedBuffersFree ==
  (step = "Render" /\ call.op = "Present" /\ call.sync /\ committed
    /\ Target(1 - seq) \in list[submitted].bufs)
  => \A s \in {active, pending} :
        /\ "VIC" \in call.ready => Target(seq) \notin list[s].bufs
        /\ WithOverlay /\ frontValid => OverlayBuffer(BackOverlay) \notin list[s].bufs

\* The frame the emulator presents is on its way to the screen when the call
\* returns, as long as nothing has failed, VIC can be shown natively and the
\* CRT effects are on.
PresentReturns == step = "Return" /\ call.op = "Present" /\ call.sync /\ "VIC" \in call.ready
NothingFailed == ~takeoverFailed /\ ~v3dFailed /\ frame # "held"
CrtFramePreserved ==
  (PresentReturns /\ committed /\ NothingFailed /\ Eligible /\ crt) => frame = "shown"

\* "so each frame is preserved" (kernel.cpp, PresentFrameBufferLayers): the same
\* whether the CRT effects are on or off.
EachFramePreserved ==
  (PresentReturns /\ committed /\ NothingFailed /\ Eligible) => frame = "shown"

\* The display code implements its abstract specification.
Owner == INSTANCE DisplayOwner WITH
  busy <- step # "Idle",
  worker <- core,
  owner <- IF committed THEN "core1" ELSE "core0",
  layers <- <<driverVars, layerVars>>
OwnerSpec == Owner!OwnerSpec
=============================================================================
