------------------------------ MODULE Pi4Layers ------------------------------
(***************************************************************************)
(* The frame buffer layers of the Pi 4 (fbl.cpp) over the native display   *)
(* of Pi4Kms and the V3D renderer (pi4v3d/pi4_v3d.cpp).                    *)
(*                                                                         *)
(* VIC is the emulator's picture: the V3D renders every frame of it into   *)
(* one of two targets of its own, taking turns, and the layer remembers    *)
(* for each of its two slots which target holds its frame.  UI stands for  *)
(* the two overlay layers: their pixels are converted into one of two      *)
(* overlay buffers when a frame is put together.  The layer of the C128's  *)
(* second video chip is left out: before the takeover it keeps the native  *)
(* display from starting, as a hidden VIC does, and later it is refused.   *)
(* Allocate changes nothing that the model has, and memory for the V3D     *)
(* pixels of VIC is always found.                                          *)
(*                                                                         *)
(* A call of the kernel runs through the steps of this module, one action  *)
(* per step in which the display hardware may go on; Pi4Display says who   *)
(* calls and on which core.  The OpenGL shader of older boards             *)
(* (uses_shader_) and the DispmanX resources are left out: with V3D there  *)
(* is no such shader, and DispmanX only appears as the step "Legacy".      *)
(***************************************************************************)
EXTENDS Pi4Kms

VARIABLES
  showing,        \* layers with showing_
  rnum,           \* VIC: rnum_
  scanout,        \* VIC: the V3D target of a slot's frame (pi4_v3d_scanout_), or
                  \* NoTarget unless pi4_v3d_ready_
  seq,            \* g_frame_sequence & 1: the target the next frame is rendered to
  v3dFailed,      \* the renderer is not available, or no longer
  crt,            \* g_pi4_v3d_crt_enabled
  front,          \* UI: pi4_kms_overlay_front_
  frontValid,     \* UI: pi4_kms_overlay_front_valid_
  call,           \* the call in progress
  step,           \* where it is
  planes,         \* kms_planes
  next,           \* next_resource
  frame           \* history: what became of the call's picture

layerVars == <<showing, rnum, scanout, seq, v3dFailed, crt, front, frontValid>>
callVars == <<call, step, planes, next, frame>>

Layers == {"VIC", "UI"}
Overlays == {"UI"}
Slots == 0..1
NoTarget == 2
Ready == {s \in Slots : scanout[s] # NoTarget}
Calls ==
  [op : {"Present"}, ready : {{"VIC"}}, sync : BOOLEAN]
  \cup [op : {"Present"}, ready : {{"UI"}}, sync : {TRUE}]
  \cup [op : {"Show", "Hide", "Free"}, ready : {{"VIC"}, {"UI"}}, sync : {FALSE}]
  \cup [op : {"Preview"}, ready : {{"VIC"}}, sync : {TRUE}]
  \cup [op : {"CrtOn", "CrtOff"}, ready : {{"VIC"}}, sync : {FALSE}]
NoCall == [op |-> "None", ready |-> {}, sync |-> FALSE]
Steps == {"Idle", "Enter", "Render", "Try", "Capture", "Claim", "Fence",
          "EndWrite", "Restart", "Verify", "Restore", "RestoreRestart", "RestoreWait",
          "Legacy", "Free", "Return"}

Target(n) == IF n = 0 THEN "v0" ELSE "v1"
OverlayBuffer(n) == IF n = 0 THEN "ui0" ELSE "ui1"

LayersTypeOK ==
  /\ showing \subseteq Layers
  /\ rnum \in Slots
  /\ scanout \in [Slots -> Slots \cup {NoTarget}]
  /\ seq \in 0..1 /\ v3dFailed \in BOOLEAN /\ crt \in BOOLEAN
  /\ front \in 0..1 /\ frontValid \in BOOLEAN
  /\ call \in Calls \cup {NoCall} /\ step \in Steps
  /\ planes \in Planes \cup {NoList} /\ next \in Slots
  /\ frame \in {"none", "new", "rendered", "shown", "held"}

LayersInit ==
  /\ showing = {}
  /\ rnum = 0 /\ scanout = [s \in Slots |-> NoTarget]
  /\ seq = 0 /\ v3dFailed \in BOOLEAN /\ crt = TRUE
  /\ front = 0 /\ frontValid = FALSE
  /\ call = NoCall /\ step = "Idle" /\ planes = NoList /\ next = 0 /\ frame = "none"

\* The calls core 1 makes: the emulator presents VIC while it is shown, the menu
\* presents UI at any time; a layer is freed when it changes its size.
Callable(c) ==
  CASE c.op = "Show" -> c.ready \cap showing = {}
    [] c.op = "Present" -> c.ready = {"VIC"} => "VIC" \in showing
    [] c.op \in {"Hide", "Free"} -> c.ready \subseteq showing
    [] c.op = "Preview" -> "VIC" \in showing /\ crt /\ ~v3dFailed
    [] OTHER -> ~v3dFailed /\ crt # (c.op = "CrtOn")

Begin(c) ==
  /\ step = "Idle"
  /\ Callable(c)
  /\ call' = c
  /\ step' = "Enter"
  /\ frame' = IF c.op = "Present" /\ "VIC" \in c.ready THEN "new" ELSE "none"
  /\ UNCHANGED <<planes, next>>

GoTo(s) == step' = s /\ UNCHANGED <<call, planes, next, frame>>

---------------------------------------------------------------------------
(* Where the calls start.                                                   *)

\* Mutant: a present goes on at once.
EnterPresentUnfenced ==
  /\ step = "Enter" /\ call.op = "Present"
  /\ GoTo("Render")
  /\ UNCHANGED <<kmsVars, layerVars>>

\* PresentFrameBufferLayers: fence the list submitted before, because its
\* buffers are reused next.
EnterPresent ==
  /\ step = "Enter" /\ call.op = "Present"
  /\ FencePassed(call.sync)
  /\ GoTo("Render")
  /\ UNCHANGED <<kmsVars, layerVars>>

EnterPresentTimeout ==
  /\ step = "Enter" /\ call.op = "Present"
  /\ FenceTimeout(call.sync)
  /\ TakeoverFails
  /\ GoTo("Return")
  /\ UNCHANGED <<hardwareVars, layerVars>>

\* SetShaderParams shows the effect at once, without that fence.
EnterPreview ==
  /\ step = "Enter" /\ call.op = "Preview"
  /\ GoTo("Render")
  /\ UNCHANGED <<kmsVars, layerVars>>

\* ReAllocate with V3D only switches the effects on or off.
EnterSetting ==
  /\ step = "Enter" /\ call.op \in {"CrtOn", "CrtOff"}
  /\ crt' = (call.op = "CrtOn")
  /\ GoTo("Return")
  /\ UNCHANGED <<kmsVars, showing, rnum, scanout, seq, v3dFailed,
                 front, frontValid>>

\* AllocatePi4V3dResources, called by Show: the buffers have the right size, or
\* are replaced and hold no frame.
StagingKept == UNCHANGED scanout
StagingReplaced == scanout' = [s \in Slots |-> NoTarget]

\* Show of a layer the native display takes: the picture is rendered into the
\* current slot and put on the screen without waiting.
EnterShow ==
  /\ step = "Enter" /\ call.op = "Show"
  /\ IF call.ready = {"VIC"} /\ ~v3dFailed
     THEN StagingKept \/ StagingReplaced
     ELSE StagingKept
  /\ \/ /\ IF call.ready = {"VIC"} THEN committed ELSE call.ready = {"UI"} /\ claimed
        /\ UNCHANGED rnum
     \/ /\ IF call.ready = {"UI"} THEN ~claimed ELSE ~committed   \* DispmanX works
        /\ rnum' = IF call.ready = {"VIC"} THEN 0 ELSE rnum
  /\ showing' = showing \cup call.ready
  /\ GoTo(IF call.ready = {"VIC"} THEN "Render" ELSE "Try")
  /\ UNCHANGED <<kmsVars, seq, v3dFailed, crt, front, frontValid>>

\* Hide, alone or as the first part of Free: an overlay is taken out of the next
\* list, which is submitted at once; VIC stays on the screen as it is.
Hiding == step = "Enter" /\ call.op \in {"Hide", "Free"}
AfterHide == IF call.op = "Free" THEN "Free" ELSE "Return"

EnterHide ==
  /\ Hiding
  /\ showing' = showing \ call.ready
  /\ GoTo(IF call.ready \subseteq showing /\ claimed /\ call.ready = {"UI"}
          THEN "Try" ELSE AfterHide)
  /\ UNCHANGED <<kmsVars, rnum, scanout, seq, v3dFailed, crt,
                 front, frontValid>>

\* The rest of FreeInternal: FreePi4V3dResources and FreePi4KmsOverlayResources.
Free ==
  /\ step = "Free"
  /\ IF call.ready = {"VIC"} THEN StagingReplaced ELSE StagingKept
  /\ IF call.ready = {"UI"}
     THEN front' = 0 /\ frontValid' = FALSE
     ELSE UNCHANGED <<front, frontValid>>
  /\ GoTo("Return")
  /\ UNCHANGED <<kmsVars, showing, rnum, seq, v3dFailed, crt>>

---------------------------------------------------------------------------
(* FrameReady: the picture of VIC.                                          *)

Renders == "VIC" \in call.ready
RenderSlot == IF call.sync THEN 1 - rnum ELSE rnum
CanRender == crt /\ ~v3dFailed

\* RenderPi4V3dFrame refuses; an overlay has nothing to render.
RenderNothing ==
  /\ step = "Render"
  /\ Renders => ~CanRender
  /\ scanout' = IF Renders THEN [scanout EXCEPT ![RenderSlot] = NoTarget] ELSE scanout
  /\ GoTo("Try")
  /\ UNCHANGED <<kmsVars, showing, rnum, seq, v3dFailed, crt, front, frontValid>>

NextSequence == 1 - seq

\* ExecuteFrameRender: the frame is in the target whose turn it is.  Without the
\* native display it has to be copied into a DispmanX resource, which may fail.
RenderDone(copied) ==
  /\ step = "Render"
  /\ Renders /\ CanRender
  /\ copied \/ ~TakeoverReady
  /\ scanout' = [scanout EXCEPT ![RenderSlot] = IF copied THEN seq ELSE NoTarget]
  /\ seq' = NextSequence
  /\ step' = "Try"
  /\ frame' = IF frame = "new" THEN "rendered" ELSE frame
  /\ UNCHANGED <<kmsVars, showing, rnum, v3dFailed, crt,
                 front, frontValid, call, planes, next>>

\* A job that fails or does not end: the renderer is not used again.
RenderFails ==
  /\ step = "Render"
  /\ Renders /\ CanRender
  /\ v3dFailed' = TRUE
  /\ scanout' = [scanout EXCEPT ![RenderSlot] = NoTarget]
  /\ GoTo("Try")
  /\ UNCHANGED <<kmsVars, showing, rnum, seq, crt,
                 front, frontValid>>

---------------------------------------------------------------------------
(* TryPi4KmsPresent.                                                        *)

Eligible == TakeoverReady /\ "VIC" \in showing
WithOverlay == "UI" \in showing

\* Mutant: the slot that is shown is preferred.
NextResourceShown == IF rnum \in Ready THEN rnum ELSE 1 - rnum

\* next_resource: the other slot for a new picture, and whichever has a frame.
NextResource ==
  LET wanted == IF "VIC" \in call.ready THEN 1 - rnum ELSE rnum
  IN  IF wanted \in Ready THEN wanted ELSE 1 - wanted

Back == IF \E l \in Overlays : call.op = "Free" /\ call.ready = {l} THEN "Free" ELSE "Return"

\* The layers cannot be shown natively, or there is no frame: the last list is
\* held, or DispmanX goes on.
TryRefused ==
  /\ step = "Try"
  /\ ~Eligible \/ Ready = {}
  /\ GoTo(IF ~Eligible /\ claimed /\ takeoverActive THEN Back ELSE "Legacy")
  /\ UNCHANGED <<kmsVars, layerVars>>

\* AllocatePi4KmsOverlayResources finds no memory; after a frame that was shown
\* the buffers are there.
TryNoOverlay ==
  /\ step = "Try"
  /\ Eligible /\ Ready # {} /\ WithOverlay /\ ~frontValid
  /\ step' = IF takeoverActive THEN Back ELSE "Legacy"
  /\ frame' = "held"
  /\ UNCHANGED <<kmsVars, layerVars, call, planes, next>>

\* The overlay that is not on the screen.
BackOverlay == IF frontValid THEN 1 - front ELSE 0

\* The picture's slot and, for the overlays, the buffers that are not shown.
TryPi4KmsPresent ==
  /\ step = "Try"
  /\ Eligible /\ Ready # {}
  /\ next' = NextResource
  /\ planes' = [layout |-> IF WithOverlay THEN "vic+overlay" ELSE "vic",
                bufs |-> {Target(scanout[NextResource])}
                         \cup (IF WithOverlay THEN {OverlayBuffer(BackOverlay)} ELSE {})]
  /\ FillTemplate(SlotIndex, planes')
  /\ step' = IF committed THEN "Fence" ELSE "Capture"
  /\ UNCHANGED <<requested, plan, claimed, committed, takeoverActive, takeoverFailed,
                 nativeModeActive, nativeModeFailed, saved, submitted, restoreFailed,
                 hardwareVars,
                 showing, rnum, scanout, seq, v3dFailed,
                 crt, front, frontValid, call, frame>>

---------------------------------------------------------------------------
(* PresentPlanes, step by step.                                             *)

\* The locals of TryPi4KmsPresent end with it.
Leaves(s) == step' = s /\ planes' = NoList /\ next' = 0 /\ UNCHANGED <<call, frame>>
Failed == Leaves(IF committed THEN Back ELSE "Restore")

PresentCapture ==
  /\ step = "Capture"
  /\ \/ Captured /\ GoTo("Claim")
     \/ CaptureDeferred /\ Leaves("Legacy")
  /\ UNCHANGED layerVars

PresentClaim ==
  /\ step = "Claim"
  /\ \/ NotifyFirmwareDisplayDone /\ GoTo("Fence")
     \/ TakeoverFails /\ UNCHANGED hardwareVars /\ Leaves("Legacy")
  /\ UNCHANGED layerVars

\* The fence of this frame: nothing changes the registers between it and the
\* first word that is written.
PresentBeginWrite ==
  /\ step = "Fence"
  /\ FencePassed(TRUE)
  /\ BeginWrite(SlotIndex)
  /\ GoTo("EndWrite")
  /\ UNCHANGED layerVars

PresentFenceTimeout ==
  /\ step = "Fence"
  /\ FenceTimeout(TRUE)
  /\ TakeoverFails
  /\ Failed
  /\ UNCHANGED <<hardwareVars, layerVars>>

\* A filter kernel or the list itself cannot be verified after all retries.
PresentWriteFails ==
  /\ step = "EndWrite"
  /\ TakeoverFails
  /\ Failed
  /\ UNCHANGED <<hardwareVars, layerVars>>

PresentEndWrite ==
  /\ step = "EndWrite"
  /\ EndWrite(SlotIndex, planes.bufs)
  /\ GoTo(IF takeoverActive THEN "Verify" ELSE "Restart")
  /\ UNCHANGED layerVars

PresentRestart ==
  /\ step = "Restart"
  /\ RestartForArm \/ RestartFallback
  /\ GoTo("Verify")
  /\ UNCHANGED layerVars

PresentRestartFails ==
  /\ step = "Restart"
  /\ RestartRefused
  /\ Failed
  /\ UNCHANGED layerVars

PresentNotActive ==
  /\ step = "Verify"
  /\ ~FirstListActive(SlotIndex)
  /\ TakeoverFails
  /\ Failed
  /\ UNCHANGED <<hardwareVars, layerVars>>

\* Submitted: the layer's slots follow.
PresentDone ==
  /\ step = "Verify"
  /\ FirstListActive(SlotIndex)
  /\ Commit(SlotIndex)
  /\ rnum' = next
  /\ front' = IF WithOverlay THEN BackOverlay ELSE front
  /\ frontValid' = (frontValid \/ WithOverlay)
  /\ step' = Back
  /\ frame' = IF frame = "rendered" /\ Target(1 - seq) \in planes.bufs THEN "shown" ELSE frame
  /\ planes' = NoList /\ next' = 0
  /\ UNCHANGED <<showing, scanout, seq, v3dFailed, crt, call>>

---------------------------------------------------------------------------
(* RestoreFirmwareScanout after a failed first present.                     *)

Restore ==
  /\ step = "Restore"
  /\ RestoreList
  /\ GoTo("RestoreRestart")
  /\ UNCHANGED layerVars

RestoreStart ==
  /\ step = "RestoreRestart"
  /\ RestoreRestart
  /\ GoTo("RestoreWait")
  /\ UNCHANGED layerVars

RestoreEnd ==
  /\ step = "RestoreWait"
  /\ RestoreDone
  /\ GoTo(Back)
  /\ UNCHANGED layerVars

RestoreBroken ==
  /\ step \in {"Restore", "RestoreRestart"} \/ (step = "RestoreWait" /\ active # FirmwareList)
  /\ RestoreGivesUp
  /\ GoTo(Back)
  /\ UNCHANGED layerVars

\* The rest of PresentLayerList: a DispmanX update swaps the slots of VIC.
Legacy ==
  /\ step = "Legacy"
  /\ rnum' = IF call.sync /\ Renders /\ "VIC" \in showing THEN 1 - rnum ELSE rnum
  /\ GoTo(Back)
  /\ UNCHANGED <<kmsVars, showing, scanout, seq, v3dFailed, crt, front, frontValid>>

---------------------------------------------------------------------------
Enter ==
  \/ EnterPresent \/ EnterPresentTimeout \/ EnterPreview \/ EnterSetting
  \/ EnterShow \/ EnterHide

Render == RenderNothing \/ RenderFails \/ \E copied \in BOOLEAN : RenderDone(copied)

PresentPlanes ==
  \/ PresentCapture \/ PresentClaim \/ PresentFenceTimeout
  \/ PresentBeginWrite \/ PresentWriteFails \/ PresentEndWrite
  \/ PresentRestart \/ PresentRestartFails \/ PresentNotActive \/ PresentDone

RestoreFirmwareScanout == Restore \/ RestoreStart \/ RestoreEnd \/ RestoreBroken

LayerStep ==
  \/ Enter \/ Render
  \/ TryRefused \/ TryNoOverlay \/ TryPi4KmsPresent
  \/ PresentPlanes \/ RestoreFirmwareScanout
  \/ Legacy \/ Free
=============================================================================
