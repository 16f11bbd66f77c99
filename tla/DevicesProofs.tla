---------------------------- MODULE DevicesProofs ----------------------------
(***************************************************************************)
(* The devices: the USB input for any number of keyboards, keys and        *)
(* buttons; the takeover of the Pi 4 display for any plan of modes; and    *)
(* the layers of the 64-bit builds for any number of overlays, any screen  *)
(* and any places of the layers.                                           *)
(***************************************************************************)
EXTENDS Pi4Display, UsbInput, NativeLayers, TLAPS

---------------------------------------------------------------------------
(* UsbInput.                                                                *)

\* The keys somebody really holds.
HeldKeys == UNION {held[s] : s \in Keyboards}

InputTypes ==
  /\ held \in [Keyboards -> SUBSET Keys] /\ mUSBKeyboards \subseteq Keyboards
  /\ mouseMode \in {"off", "menu", "monitor"}
  /\ mouseState.consumer \in {"off", "menu", "monitor", "machine"}

\* The merged state is the reports of the keyboards, no more and no less.
OwnersMerge == owners = [k \in Keys |-> {s \in Keyboards : k \in held[s]}]

\* While the menu is open, whatever the machine believes to be down was down
\* when the menu came.
MenuStrays == ui_enabled => machineKeys \subseteq strayed

\* The mouse as the machine had it: what is held and not passed on is suppressed.
MouseKnown ==
  mouseState.consumer = "machine" => buttonsHeld \subseteq machineButtons \cup mouseState.suppressed

InputInv ==
  /\ InputTypes /\ OwnersMerge /\ KeysMirrorKeyboards /\ NoStuckKeys /\ MenuStrays
  /\ MouseKnown /\ NoStuckButtons

LEMMA PressedIsHeld == InputTypes /\ OwnersMerge => Pressed(owners) = HeldKeys
<1> SUFFICES ASSUME InputTypes, OwnersMerge PROVE Pressed(owners) = HeldKeys
  OBVIOUS
<1>1. \A k : k \in HeldKeys <=> \E s \in Keyboards : k \in held[s]
  BY DEF HeldKeys
<1>2. \A k \in Keys : owners[k] = {s \in Keyboards : k \in held[s]}
  BY DEF OwnersMerge
<1>3. \A k : k \in Pressed(owners) <=> k \in Keys /\ \E s \in Keyboards : k \in held[s]
  BY <1>2 DEF Pressed
<1>4. \A s \in Keyboards : held[s] \subseteq Keys
  BY DEF InputTypes
<1> QED
  BY <1>1, <1>3, <1>4

LEMMA InputInvInit == InputInit => InputInv
BY DEF InputInit, InputInv, InputTypes, OwnersMerge, KeysMirrorKeyboards, NoStuckKeys,
       MenuStrays, MouseKnown, NoStuckButtons

\* A merged state own with held keys newHeld goes to the receiver or the monitor.
LEMMA HandlerKeeps ==
  ASSUME InputTypes, OwnersMerge, KeysMirrorKeyboards, NoStuckKeys, MenuStrays,
         NEW own, UNCHANGED menuVars,
         ToMonitor(own) \/ ToReceiver(own),
         Pressed(own) = HeldKeys'
  PROVE  /\ KeysMirrorKeyboards' /\ NoStuckKeys' /\ MenuStrays'
         /\ \A k \in machineKeys' \ machineKeys : k \notin HeldKeys
<1>a. ~monitorActive => key_states = HeldKeys \ suppressed
  BY Zenon DEF KeysMirrorKeyboards, HeldKeys
<1>b. (~monitorActive' => key_states' = HeldKeys' \ suppressed') => KeysMirrorKeyboards'
  BY Zenon DEF KeysMirrorKeyboards, HeldKeys
<1>0. Pressed(owners) = HeldKeys
  BY PressedIsHeld
<1>1. CASE ToMonitor(own)
  <2>1. ui_enabled /\ monitorActive' /\ UNCHANGED <<machineKeys, strayed>>
    BY <1>1, Zenon DEF ToMonitor, emu_wants_raw_keyboard
  <2> QED
    BY <1>b, <2>1 DEF NoStuckKeys, MenuStrays, menuVars
<1>2. CASE ToReceiver(own) /\ ~(monitorActive \/ Pressed(own) # Pressed(owners))
  BY <1>0, <1>a, <1>b, <1>2 DEF ToReceiver, NoStuckKeys, MenuStrays, menuVars
<1>3. CASE ToReceiver(own) /\ (monitorActive \/ Pressed(own) # Pressed(owners))
  <2> DEFINE new == Pressed(own) \ SuppressedAfterMonitor
  <2>1. /\ key_states' = new /\ suppressed' = SuppressedAfterMonitor \cap Pressed(own)
        /\ IF ui_enabled THEN UNCHANGED <<machineKeys, strayed>>
           ELSE /\ machineKeys' = (machineKeys \ (key_states \ new)) \cup (new \ key_states)
                /\ strayed' = strayed \ ((key_states \ new) \cup (new \ key_states))
    BY <1>3 DEF ToReceiver, DispatchUSBKeyboardState, Released
  <2>2. KeysMirrorKeyboards'
    BY <1>b, <2>1
  <2>3. NoStuckKeys' /\ MenuStrays'
    BY <2>1 DEF NoStuckKeys, MenuStrays, menuVars
  <2>4. \A k \in new \ key_states : k \notin HeldKeys
    BY <1>0, <1>a DEF SuppressedAfterMonitor
  <2> QED
    BY <2>1, <2>2, <2>3, <2>4
<1> QED
  BY <1>1, <1>2, <1>3

\* A report of s changes the merged state as it changes what is held.
LEMMA ReportMerges ==
  ASSUME InputTypes, OwnersMerge, NEW s \in Keyboards, NEW ks \in SUBSET Keys,
         held' = [held EXCEPT ![s] = ks], owners' = ApplyReport(s, ks)
  PROVE  /\ held' \in [Keyboards -> SUBSET Keys] /\ OwnersMerge'
         /\ Pressed(ApplyReport(s, ks)) = HeldKeys'
<1>1. held' \in [Keyboards -> SUBSET Keys]
  BY DEF InputTypes
<1>2. ApplyReport(s, ks) = [k \in Keys |-> {t \in Keyboards : k \in held'[t]}]
  <2>1. \A k \in Keys : (IF k \in ks THEN owners[k] \cup {s} ELSE owners[k] \ {s})
                          = {t \in Keyboards : k \in held'[t]}
    BY DEF InputTypes, OwnersMerge
  <2> QED
    BY <2>1 DEF ApplyReport
<1>3. OwnersMerge'
  BY <1>2 DEF OwnersMerge
<1>4. Pressed(ApplyReport(s, ks)) = HeldKeys'
  BY <1>1, <1>2 DEF Pressed, HeldKeys
<1> QED
  BY <1>1, <1>3, <1>4

\* The keyboard part of a step: the invariant, and only fresh presses.
KeysKept ==
  /\ InputTypes' /\ OwnersMerge' /\ KeysMirrorKeyboards' /\ NoStuckKeys' /\ MenuStrays'
  /\ \A k \in machineKeys' \ machineKeys : k \notin HeldKeys

LEMMA KeyboardStep ==
  ASSUME InputInv, NEW s \in Keyboards, NEW ks \in SUBSET Keys,
         held' = [held EXCEPT ![s] = ks], mUSBKeyboards' \subseteq Keyboards,
         ToMonitor(ApplyReport(s, ks)) \/ ToReceiver(ApplyReport(s, ks)),
         UNCHANGED <<menuVars, mouseVars>>
  PROVE  KeysKept
<1>1. owners' = ApplyReport(s, ks)
  BY DEF ToMonitor, ToReceiver
<1>2. /\ held' \in [Keyboards -> SUBSET Keys] /\ OwnersMerge'
      /\ Pressed(ApplyReport(s, ks)) = HeldKeys'
  BY <1>1, ReportMerges DEF InputInv
<1>3. InputTypes'
  BY <1>2 DEF InputInv, InputTypes, menuVars, mouseVars
<1> QED
  BY <1>2, <1>3, HandlerKeeps DEF InputInv, KeysKept

LEMMA ErrorReportStep == ASSUME InputInv, NEW s \in Keyboards, ErrorReport(s) PROVE KeysKept
<1>1. /\ owners' = owners /\ held' = held /\ UNCHANGED <<mUSBKeyboards, menuVars, mouseVars>>
      /\ ToMonitor(owners) \/ ToReceiver(owners)
  BY DEF ErrorReport, ToMonitor, ToReceiver
<1>2. InputTypes' /\ OwnersMerge' /\ HeldKeys' = HeldKeys
  BY <1>1 DEF InputInv, InputTypes, OwnersMerge, HeldKeys, menuVars, mouseVars
<1>3. Pressed(owners) = HeldKeys'
  BY <1>2, PressedIsHeld DEF InputInv
<1> QED
  BY <1>1, <1>2, <1>3, HandlerKeeps DEF InputInv, KeysKept

\* The mouse part of a report.
LEMMA MouseStep ==
  ASSUME InputInv, NEW b \in SUBSET Buttons, MouseReport(b)
  PROVE  /\ MouseKnown' /\ NoStuckButtons'
         /\ mouseState'.consumer \in {"off", "menu", "monitor", "machine"}
         /\ \A c \in machineButtons' \ machineButtons : c \notin buttonsHeld
<1>1. /\ buttonsHeld' = b /\ machineButtons' = MachineButtons(b)
      /\ mouseState'.suppressed = StillSuppressed(b) /\ mouseState'.consumer = MouseConsumer
  BY DEF MouseReport
<1>2. MachineButtons(b) \subseteq b
  BY DEF MachineButtons
<1>3. MouseConsumer = "machine" => b \subseteq MachineButtons(b) \cup StillSuppressed(b)
  BY DEF MachineButtons
<1>4. MouseConsumer \in {"menu", "monitor", "machine"}
  BY DEF MouseConsumer, InputInv, InputTypes
<1>5. ASSUME NEW c \in MachineButtons(b) \ machineButtons PROVE c \notin buttonsHeld
  <2>1. MouseConsumer = "machine" /\ c \in b \ StillSuppressed(b)
    BY <1>5 DEF MachineButtons
  <2>2. mouseState.consumer = "machine" /\ c \notin mouseState.suppressed
    BY <2>1 DEF StillSuppressed
  <2> QED
    BY <2>2, <1>5 DEF InputInv, MouseKnown
<1> QED
  BY <1>1, <1>2, <1>3, <1>4, <1>5 DEF MouseKnown, NoStuckButtons

\* Every step keeps the invariant and passes on only fresh presses and clicks.
LEMMA InputStep ==
  ASSUME InputInv, [InputNext]_inputVars
  PROVE  /\ InputInv'
         /\ \A k \in machineKeys' \ machineKeys : k \notin HeldKeys
         /\ \A b \in machineButtons' \ machineButtons : b \notin buttonsHeld
<1> DEFINE Goal == /\ InputInv'
                   /\ \A k \in machineKeys' \ machineKeys : k \notin HeldKeys
                   /\ \A b \in machineButtons' \ machineButtons : b \notin buttonsHeld
<1>0. ASSUME KeysKept, UNCHANGED mouseVars PROVE Goal
  BY <1>0 DEF KeysKept, InputInv, MouseKnown, NoStuckButtons, mouseVars
<1>1. ASSUME NEW s \in Keyboards, NEW ks \in SUBSET Keys, Report(s, ks) PROVE Goal
  <2>1. KeysKept
    BY <1>1, KeyboardStep DEF Report, InputInv, InputTypes
  <2> QED
    BY <1>0, <1>1, <2>1 DEF Report
<1>2. ASSUME NEW s \in Keyboards, ErrorReport(s) PROVE Goal
  BY <1>0, <1>2, ErrorReportStep DEF ErrorReport
<1>3. ASSUME NEW s \in Keyboards, KeyRemovedHandler(s) \/ SetupUSBKeyboard(s) PROVE Goal
  <2>1. RemoveUSBKeyboardDevice(s) /\ mUSBKeyboards' \subseteq Keyboards
    BY <1>3 DEF KeyRemovedHandler, SetupUSBKeyboard, InputInv, InputTypes
  <2>2. KeysKept
    BY <2>1, KeyboardStep DEF RemoveUSBKeyboardDevice
  <2> QED
    BY <1>0, <2>1, <2>2 DEF RemoveUSBKeyboardDevice
<1>4. ASSUME NEW b \in SUBSET Buttons, MouseReport(b) PROVE Goal
  <2>1. UNCHANGED <<menuVars, keyVars>>
    BY <1>4 DEF MouseReport
  <2>2. InputTypes' /\ OwnersMerge' /\ KeysMirrorKeyboards' /\ NoStuckKeys' /\ MenuStrays'
    BY <1>4, <2>1, MouseStep
       DEF InputInv, InputTypes, OwnersMerge, KeysMirrorKeyboards, NoStuckKeys, MenuStrays,
           menuVars, keyVars
  <2> QED
    BY <1>4, <2>1, <2>2, MouseStep DEF InputInv, keyVars
<1>5. CASE MouseRemovedHandler \/ SetupUSBMouse
  BY <1>5 DEF MouseRemovedHandler, SetupUSBMouse, InputInv, InputTypes, OwnersMerge,
       KeysMirrorKeyboards, NoStuckKeys, MenuStrays, MouseKnown, NoStuckButtons, menuVars, keyVars
<1>6. CASE ToggleUi
  BY <1>6 DEF ToggleUi, InputInv, InputTypes, OwnersMerge,
       KeysMirrorKeyboards, NoStuckKeys, MenuStrays, MouseKnown, NoStuckButtons, mouseVars
<1>7. CASE ChooseInput
  BY <1>7 DEF ChooseInput, InputInv, InputTypes, OwnersMerge,
       KeysMirrorKeyboards, NoStuckKeys, MenuStrays, MouseKnown, NoStuckButtons, mouseVars, keyVars
<1>8. CASE UNCHANGED inputVars
  BY <1>8 DEF inputVars, InputInv, InputTypes, OwnersMerge,
       KeysMirrorKeyboards, NoStuckKeys, MenuStrays, MouseKnown, NoStuckButtons, menuVars,
       mouseVars, keyVars
<1> QED
  BY <1>1, <1>2, <1>3, <1>4, <1>5, <1>6, <1>7, <1>8 DEF InputNext

LEMMA InputInvariant == InputSpec => []InputInv
<1>1. InputInv /\ [InputNext]_inputVars => InputInv'
  BY InputStep
<1> QED
  BY <1>1, InputInvInit, PTL DEF InputSpec

\* What is passed on as pressed is what is held (USBKeyboardState, DispatchUSBKeyboardState).
THEOREM KeysMirrorTheKeyboards == InputSpec => []KeysMirrorKeyboards
<1>1. InputInv => KeysMirrorKeyboards
  BY DEF InputInv
<1> QED
  BY <1>1, InputInvariant, PTL

\* The machine holds no key that is up, but for the menu (DispatchUSBKeyboardState).
THEOREM NoKeyIsStuck == InputSpec => []NoStuckKeys
<1>1. InputInv => NoStuckKeys
  BY DEF InputInv
<1> QED
  BY <1>1, InputInvariant, PTL

\* The machine holds no button that is up, but for the removal of the mouse
\* (bmx_mouse_status_update).
THEOREM NoButtonIsStuck == InputSpec => []NoStuckButtons
<1>1. InputInv => NoStuckButtons
  BY DEF InputInv
<1> QED
  BY <1>1, InputInvariant, PTL

\* A key goes down for the machine only when it goes down (EndRawKeyboardMonitor).
THEOREM PressesStayFresh == InputSpec => PressesAreFresh
<1>1. InputInv /\ [InputNext]_inputVars
        => [\A k \in machineKeys' \ machineKeys :
              k \notin UNION {held[s] : s \in Keyboards}]_inputVars
  BY InputStep DEF HeldKeys
<1> QED
  BY <1>1, InputInvariant, PTL DEF InputSpec, PressesAreFresh

\* Likewise a button, whoever had the mouse before (bmx_mouse_status_update).
THEOREM NoClickIsPhantom == InputSpec => NoPhantomClick
<1>1. InputInv /\ [InputNext]_inputVars
        => [\A b \in machineButtons' \ machineButtons : b \notin buttonsHeld]_inputVars
  BY InputStep
<1> QED
  BY <1>1, InputInvariant, PTL DEF InputSpec, NoPhantomClick

\* InputFaithful: for any number of keyboards, keys and buttons the machine sees
\* what is held.
THEOREM InputIsFaithful == InputSpec => []InputFaithful
<1>1. InputFaithful <=> KeysMirrorKeyboards /\ NoStuckKeys /\ NoStuckButtons
  BY DEF InputFaithful
<1> QED
  BY <1>1, KeysMirrorTheKeyboards, NoKeyIsStuck, NoButtonIsStuck, PTL

\* InputFresh: and it sees a key or a button go down when it does.
THEOREM InputIsFresh == InputSpec => InputFresh
<1>1. InputFresh <=> PressesAreFresh /\ NoPhantomClick
  BY DEF InputFresh
<1> QED
  BY <1>1, PressesStayFresh, NoClickIsPhantom, PTL

---------------------------------------------------------------------------
(* Pi4Display.                                                              *)

PresentSteps == {"Capture", "Claim", "Fence", "EndWrite", "Restart", "Verify"}
RestoreSteps == {"Restore", "RestoreRestart", "RestoreWait"}

\* What the driver knows at each step of a call.
TakeoverSteps ==
  /\ takeoverActive <=> committed
  /\ committed => claimed /\ plan = "none" /\ ~restoreFailed
  /\ claimed /\ ~committed => saved
  /\ restoreFailed => takeoverFailed
  /\ claimed /\ ~committed /\ step \notin PresentSteps => takeoverFailed
  /\ plan = "changed" /\ ~takeoverFailed => ~nativeModeFailed
  /\ step \in PresentSteps => TakeoverReady
  /\ step \in RestoreSteps => takeoverFailed
  /\ step \in {"Capture", "Claim", "Restart"} \cup RestoreSteps => ~committed
  /\ step \in {"Capture", "Claim"} => ~claimed
  /\ step = "Claim" => saved
  /\ step \in {"Fence", "EndWrite", "Restart", "Verify"} \cup RestoreSteps => claimed

\* While a frame is put together the template of its slot has its layout, and
\* once it is written the list is the frame.
ListWanted ==
  /\ step \in PresentSteps => planes \in Planes
  /\ step \in {"Capture", "Claim", "Fence", "EndWrite"} => template[SlotIndex] = planes.layout
  /\ step \in {"Restart", "Verify"} => list[SlotIndex] = planes

LEMMA PlanesTyped ==
  ASSUME TypeOK, Ready # {}
  PROVE  /\ NextResource \in Slots /\ NextResource \in Ready
         /\ scanout[NextResource] \in Slots
         /\ BackOverlay \in 0..1
         /\ [layout |-> IF WithOverlay THEN "vic+overlay" ELSE "vic",
             bufs |-> {Target(scanout[NextResource])}
                        \cup (IF WithOverlay THEN {OverlayBuffer(BackOverlay)} ELSE {})] \in Planes
<1>1. rnum \in Slots /\ 1 - rnum \in Slots /\ Slots = {rnum, 1 - rnum}
  BY DEF TypeOK, LayersTypeOK, Slots
<1>2. NextResource \in Slots /\ NextResource \in Ready
  <2> DEFINE wanted == IF "VIC" \in call.ready THEN 1 - rnum ELSE rnum
  <2>1. wanted \in Slots /\ 1 - wanted \in Slots /\ Slots = {wanted, 1 - wanted}
    BY <1>1 DEF Slots
  <2>2. NextResource = IF wanted \in Ready THEN wanted ELSE 1 - wanted
    BY DEF NextResource
  <2>3. Ready \subseteq Slots
    BY DEF Ready
  <2> HIDE DEF wanted, NextResource
  <2> QED BY <2>1, <2>2, <2>3
<1>3. scanout[NextResource] \in Slots
  BY <1>2 DEF TypeOK, LayersTypeOK, Ready
<1>4. BackOverlay \in 0..1
  BY DEF TypeOK, LayersTypeOK, BackOverlay
<1> HIDE DEF NextResource
<1> QED BY <1>2, <1>3, <1>4 DEF Planes, Layouts, Buffers, Target, OverlayBuffer

LEMMA CallsReady == \A c \in Calls \cup {NoCall} : c.ready \subseteq Layers
<1>1. NoCall.ready = {}
  BY DEF NoCall
<1>2. \A c \in Calls : c.ready = {"VIC"} \/ c.ready = {"UI"}
  BY DEF Calls
<1> QED BY <1>1, <1>2 DEF Layers

\* The type invariant in parts: flags and data.
KmsFlags ==
  /\ requested \in BOOLEAN /\ claimed \in BOOLEAN /\ committed \in BOOLEAN
  /\ takeoverActive \in BOOLEAN /\ takeoverFailed \in BOOLEAN
  /\ nativeModeActive \in BOOLEAN /\ nativeModeFailed \in BOOLEAN
  /\ saved \in BOOLEAN /\ restoreFailed \in BOOLEAN
  /\ running \in BOOLEAN
KmsData ==
  /\ plan \in Plans \cup {"none"} /\ submitted \in ListSlots
  /\ template \in [ListSlots -> Layouts \cup {NoLayout}]
  /\ list \in [ListSlots -> Planes \cup {NoList, Torn}]
  /\ pending \in ListSlots \cup {FirmwareList} /\ active \in ListSlots \cup {FirmwareList}
  /\ timing \in Timings /\ clocks \in Timings \cup ClockRates
LayerFlags == v3dFailed \in BOOLEAN /\ crt \in BOOLEAN /\ frontValid \in BOOLEAN
LayerData ==
  /\ showing \subseteq Layers /\ rnum \in Slots
  /\ scanout \in [Slots -> Slots \cup {NoTarget}] /\ seq \in 0..1 /\ front \in 0..1
  /\ step \in Steps
  /\ planes \in Planes \cup {NoList} /\ next \in Slots
  /\ frame \in {"none", "new", "rendered", "shown", "held"}
CallData == call \in Calls \cup {NoCall}

LEMMA TypesSplit == TypeOK <=> KmsFlags /\ KmsData /\ LayerFlags /\ LayerData /\ CallData
                          /\ core \in {"none", "core0", "core1"}
BY DEF TypeOK, KmsTypeOK, LayersTypeOK, KmsFlags, KmsData, LayerFlags, LayerData, CallData


LEMMA KmsFlagsStep ==
  KmsFlags /\ [Next]_vars => KmsFlags'
<1> SUFFICES ASSUME KmsFlags, [Next]_vars PROVE KmsFlags'
  OBVIOUS
<1> USE DEF callVars, kmsVars, driverVars, hardwareVars, layerVars, GoTo, Leaves, Failed,
  Back, KmsFlags
<1>1. CASE EnterPresent
  BY <1>1 DEF EnterPresent
<1>2. CASE EnterPresentTimeout
  BY <1>2 DEF EnterPresentTimeout, TakeoverFails
<1>3. CASE EnterPreview
  BY <1>3 DEF EnterPreview
<1>4. CASE EnterSetting
  BY <1>4 DEF EnterSetting
<1>5. CASE EnterShow
  BY <1>5 DEF EnterShow, StagingKept, StagingReplaced
<1>6. CASE EnterHide
  BY <1>6 DEF EnterHide, Hiding, AfterHide
<1>7. CASE RenderNothing
  BY <1>7 DEF RenderNothing
<1>8. CASE RenderFails
  BY <1>8 DEF RenderFails
<1>9. ASSUME NEW copied \in BOOLEAN, RenderDone(copied) PROVE KmsFlags'
  BY <1>9 DEF RenderDone, NextSequence
<1>10. CASE TryRefused
  BY <1>10 DEF TryRefused
<1>11. CASE TryNoOverlay
  BY <1>11 DEF TryNoOverlay
<1>12. CASE TryPi4KmsPresent
  BY <1>12 DEF TryPi4KmsPresent, FillTemplate
<1>13. CASE PresentCapture
  BY <1>13 DEF PresentCapture, Captured, CaptureDeferred
<1>14. CASE PresentClaim
  BY <1>14 DEF PresentClaim, NotifyFirmwareDisplayDone, TakeoverFails
<1>15. CASE PresentFenceTimeout
  BY <1>15 DEF PresentFenceTimeout, TakeoverFails
<1>16. CASE PresentBeginWrite
  BY <1>16 DEF PresentBeginWrite, BeginWrite
<1>17. CASE PresentWriteFails
  BY <1>17 DEF PresentWriteFails, TakeoverFails
<1>18. CASE PresentEndWrite
  BY <1>18 DEF PresentEndWrite, EndWrite
<1>19. CASE PresentRestart
  <2>1. nativeModeActive' \in BOOLEAN
    BY <1>19, Zenon DEF PresentRestart, RestartForArm, RestartFallback, NativePlan
  <2>2. /\ UNCHANGED <<requested, claimed, committed, takeoverActive, takeoverFailed, saved,
                      restoreFailed>>
        /\ nativeModeFailed' \in {nativeModeFailed, TRUE} /\ running' = TRUE
    BY <1>19 DEF PresentRestart, RestartForArm, RestartFallback, RestartWorks
  <2> QED BY <2>1, <2>2
<1>20. CASE PresentRestartFails
  BY <1>20 DEF PresentRestartFails, RestartRefused, RestartFails, ClocksFor
<1>21. CASE PresentNotActive
  BY <1>21 DEF PresentNotActive, TakeoverFails
<1>22. CASE PresentDone
  BY <1>22 DEF PresentDone, Commit
<1>23. CASE Restore
  BY <1>23 DEF Restore, RestoreList
<1>24. CASE RestoreStart
  BY <1>24 DEF RestoreStart, RestoreRestart, RestartWorks, ClocksFor
<1>25. CASE RestoreEnd
  BY <1>25 DEF RestoreEnd, RestoreDone
<1>26. CASE RestoreBroken
  BY <1>26 DEF RestoreBroken, RestoreGivesUp
<1>27. CASE Legacy
  BY <1>27 DEF Legacy
<1>28. CASE Free
  BY <1>28 DEF Free, StagingKept, StagingReplaced
<1>29. ASSUME NEW c \in Calls, Core1Call(c) PROVE KmsFlags'
  BY <1>29 DEF Core1Call, Begin
<1>30. CASE Return
  BY <1>30 DEF Return
<1>31. CASE Hvs
  BY <1>31 DEF Hvs, VBlank
<1>32. CASE UNCHANGED vars
  BY <1>32 DEF vars
<1> QED BY <1>1, <1>2, <1>3, <1>4, <1>5, <1>6, <1>7, <1>8, <1>9, <1>10, <1>11, <1>12,
  <1>13, <1>14, <1>15, <1>16, <1>17, <1>18, <1>19, <1>20, <1>21, <1>22, <1>23, <1>24, <1>25,
  <1>26, <1>27, <1>28, <1>29, <1>30, <1>31, <1>32
  DEF Next, Run, LayerStep, Enter, Render, PresentPlanes, RestoreFirmwareScanout

LEMMA LayerFlagsStep ==
  LayerFlags /\ [Next]_vars => LayerFlags'
<1> SUFFICES ASSUME LayerFlags, [Next]_vars PROVE LayerFlags'
  OBVIOUS
<1> USE DEF callVars, kmsVars, driverVars, hardwareVars, layerVars, GoTo, Leaves, Failed,
  Back, LayerFlags
<1>1. CASE EnterPresent
  BY <1>1 DEF EnterPresent
<1>2. CASE EnterPresentTimeout
  BY <1>2 DEF EnterPresentTimeout, TakeoverFails
<1>3. CASE EnterPreview
  BY <1>3 DEF EnterPreview
<1>4. CASE EnterSetting
  BY <1>4 DEF EnterSetting
<1>5. CASE EnterShow
  BY <1>5 DEF EnterShow, StagingKept, StagingReplaced
<1>6. CASE EnterHide
  BY <1>6 DEF EnterHide, Hiding, AfterHide
<1>7. CASE RenderNothing
  BY <1>7 DEF RenderNothing
<1>8. CASE RenderFails
  BY <1>8 DEF RenderFails
<1>9. ASSUME NEW copied \in BOOLEAN, RenderDone(copied) PROVE LayerFlags'
  BY <1>9 DEF RenderDone, NextSequence
<1>10. CASE TryRefused
  BY <1>10 DEF TryRefused
<1>11. CASE TryNoOverlay
  BY <1>11 DEF TryNoOverlay
<1>12. CASE TryPi4KmsPresent
  BY <1>12 DEF TryPi4KmsPresent, FillTemplate
<1>13. CASE PresentCapture
  BY <1>13 DEF PresentCapture, Captured, CaptureDeferred
<1>14. CASE PresentClaim
  BY <1>14 DEF PresentClaim, NotifyFirmwareDisplayDone, TakeoverFails
<1>15. CASE PresentFenceTimeout
  BY <1>15 DEF PresentFenceTimeout, TakeoverFails
<1>16. CASE PresentBeginWrite
  BY <1>16 DEF PresentBeginWrite, BeginWrite
<1>17. CASE PresentWriteFails
  BY <1>17 DEF PresentWriteFails, TakeoverFails
<1>18. CASE PresentEndWrite
  BY <1>18 DEF PresentEndWrite, EndWrite
<1>19. CASE PresentRestart
  BY <1>19 DEF PresentRestart, RestartForArm, RestartFallback, RestartWorks, ClocksFor
<1>20. CASE PresentRestartFails
  BY <1>20 DEF PresentRestartFails, RestartRefused, RestartFails, ClocksFor
<1>21. CASE PresentNotActive
  BY <1>21 DEF PresentNotActive, TakeoverFails
<1>22. CASE PresentDone
  BY <1>22 DEF PresentDone, Commit
<1>23. CASE Restore
  BY <1>23 DEF Restore, RestoreList
<1>24. CASE RestoreStart
  BY <1>24 DEF RestoreStart, RestoreRestart, RestartWorks, ClocksFor
<1>25. CASE RestoreEnd
  BY <1>25 DEF RestoreEnd, RestoreDone
<1>26. CASE RestoreBroken
  BY <1>26 DEF RestoreBroken, RestoreGivesUp
<1>27. CASE Legacy
  BY <1>27 DEF Legacy
<1>28. CASE Free
  BY <1>28 DEF Free, StagingKept, StagingReplaced
<1>29. ASSUME NEW c \in Calls, Core1Call(c) PROVE LayerFlags'
  BY <1>29 DEF Core1Call, Begin
<1>30. CASE Return
  BY <1>30 DEF Return
<1>31. CASE Hvs
  BY <1>31 DEF Hvs, VBlank
<1>32. CASE UNCHANGED vars
  BY <1>32 DEF vars
<1> QED BY <1>1, <1>2, <1>3, <1>4, <1>5, <1>6, <1>7, <1>8, <1>9, <1>10, <1>11, <1>12,
  <1>13, <1>14, <1>15, <1>16, <1>17, <1>18, <1>19, <1>20, <1>21, <1>22, <1>23, <1>24, <1>25,
  <1>26, <1>27, <1>28, <1>29, <1>30, <1>31, <1>32
  DEF Next, Run, LayerStep, Enter, Render, PresentPlanes, RestoreFirmwareScanout

LEMMA CallDataStep ==
  CallData /\ [Next]_vars => CallData'
<1> SUFFICES ASSUME CallData, [Next]_vars PROVE CallData'
  OBVIOUS
<1> USE DEF callVars, kmsVars, driverVars, hardwareVars, layerVars, GoTo, Leaves, Failed,
  Back, CallData
<1>1. CASE EnterPresent
  BY <1>1 DEF EnterPresent
<1>2. CASE EnterPresentTimeout
  BY <1>2 DEF EnterPresentTimeout, TakeoverFails
<1>3. CASE EnterPreview
  BY <1>3 DEF EnterPreview
<1>4. CASE EnterSetting
  BY <1>4 DEF EnterSetting
<1>5. CASE EnterShow
  BY <1>5 DEF EnterShow, StagingKept, StagingReplaced
<1>6. CASE EnterHide
  BY <1>6 DEF EnterHide, Hiding, AfterHide
<1>7. CASE RenderNothing
  BY <1>7 DEF RenderNothing
<1>8. CASE RenderFails
  BY <1>8 DEF RenderFails
<1>9. ASSUME NEW copied \in BOOLEAN, RenderDone(copied) PROVE CallData'
  BY <1>9 DEF RenderDone, NextSequence
<1>10. CASE TryRefused
  BY <1>10 DEF TryRefused
<1>11. CASE TryNoOverlay
  BY <1>11 DEF TryNoOverlay
<1>12. CASE TryPi4KmsPresent
  BY <1>12 DEF TryPi4KmsPresent, FillTemplate
<1>13. CASE PresentCapture
  BY <1>13 DEF PresentCapture, Captured, CaptureDeferred
<1>14. CASE PresentClaim
  BY <1>14 DEF PresentClaim, NotifyFirmwareDisplayDone, TakeoverFails
<1>15. CASE PresentFenceTimeout
  BY <1>15 DEF PresentFenceTimeout, TakeoverFails
<1>16. CASE PresentBeginWrite
  BY <1>16 DEF PresentBeginWrite, BeginWrite
<1>17. CASE PresentWriteFails
  BY <1>17 DEF PresentWriteFails, TakeoverFails
<1>18. CASE PresentEndWrite
  BY <1>18 DEF PresentEndWrite, EndWrite
<1>19. CASE PresentRestart
  BY <1>19 DEF PresentRestart, RestartForArm, RestartFallback, RestartWorks, ClocksFor
<1>20. CASE PresentRestartFails
  BY <1>20 DEF PresentRestartFails, RestartRefused, RestartFails, ClocksFor
<1>21. CASE PresentNotActive
  BY <1>21 DEF PresentNotActive, TakeoverFails
<1>22. CASE PresentDone
  BY <1>22 DEF PresentDone, Commit
<1>23. CASE Restore
  BY <1>23 DEF Restore, RestoreList
<1>24. CASE RestoreStart
  BY <1>24 DEF RestoreStart, RestoreRestart, RestartWorks, ClocksFor
<1>25. CASE RestoreEnd
  BY <1>25 DEF RestoreEnd, RestoreDone
<1>26. CASE RestoreBroken
  BY <1>26 DEF RestoreBroken, RestoreGivesUp
<1>27. CASE Legacy
  BY <1>27 DEF Legacy
<1>28. CASE Free
  BY <1>28 DEF Free, StagingKept, StagingReplaced
<1>29. ASSUME NEW c \in Calls, Core1Call(c) PROVE CallData'
  BY <1>29 DEF Core1Call, Begin
<1>30. CASE Return
  BY <1>30 DEF Return
<1>31. CASE Hvs
  BY <1>31 DEF Hvs, VBlank
<1>32. CASE UNCHANGED vars
  BY <1>32 DEF vars
<1> QED BY <1>1, <1>2, <1>3, <1>4, <1>5, <1>6, <1>7, <1>8, <1>9, <1>10, <1>11, <1>12,
  <1>13, <1>14, <1>15, <1>16, <1>17, <1>18, <1>19, <1>20, <1>21, <1>22, <1>23, <1>24, <1>25,
  <1>26, <1>27, <1>28, <1>29, <1>30, <1>31, <1>32
  DEF Next, Run, LayerStep, Enter, Render, PresentPlanes, RestoreFirmwareScanout

LEMMA LayerDataStep ==
  TypeOK /\ LayerData /\ [Next]_vars => LayerData'
<1> SUFFICES ASSUME TypeOK, LayerData, [Next]_vars PROVE LayerData'
  OBVIOUS
<1> USE DEF callVars, kmsVars, driverVars, hardwareVars, layerVars, GoTo, Leaves, Failed,
  Back, LayerData, Steps, Slots
<1>1. CASE EnterPresent
  BY <1>1 DEF EnterPresent
<1>2. CASE EnterPresentTimeout
  BY <1>2 DEF EnterPresentTimeout, TakeoverFails
<1>3. CASE EnterPreview
  BY <1>3 DEF EnterPreview
<1>4. CASE EnterSetting
  BY <1>4 DEF EnterSetting
<1>5. CASE EnterShow
  <2>1. call.ready \subseteq Layers
    BY CallsReady DEF TypeOK, LayersTypeOK
  <2>2. scanout' \in [Slots -> Slots \cup {NoTarget}]
    BY <1>5 DEF EnterShow, StagingKept, StagingReplaced
  <2>3. rnum' \in Slots
    BY <1>5 DEF EnterShow
  <2> QED BY <1>5, <2>1, <2>2, <2>3 DEF EnterShow
<1>6. CASE EnterHide
  BY <1>6 DEF EnterHide, Hiding, AfterHide, Layers
<1>7. CASE RenderNothing
  BY <1>7 DEF RenderNothing, RenderSlot, NoTarget
<1>8. CASE RenderFails
  BY <1>8 DEF RenderFails, RenderSlot, NoTarget
<1>9. ASSUME NEW copied \in BOOLEAN, RenderDone(copied) PROVE LayerData'
  BY <1>9 DEF RenderDone, NextSequence, RenderSlot, NoTarget
<1>10. CASE TryRefused
  BY <1>10 DEF TryRefused
<1>11. CASE TryNoOverlay
  BY <1>11 DEF TryNoOverlay
<1>12. CASE TryPi4KmsPresent
  <2>1. step' = "Fence" \/ step' = "Capture"
    BY <1>12 DEF TryPi4KmsPresent
  <2>2. UNCHANGED <<showing, rnum, scanout, seq, front, frame>>
    BY <1>12 DEF TryPi4KmsPresent
  <2>3. next' \in Slots /\ planes' \in Planes
    BY <1>12, PlanesTyped DEF TryPi4KmsPresent
  <2> QED BY <2>1, <2>2, <2>3
<1>13. CASE PresentCapture
  BY <1>13 DEF PresentCapture, Captured, CaptureDeferred
<1>14. CASE PresentClaim
  BY <1>14 DEF PresentClaim, NotifyFirmwareDisplayDone, TakeoverFails
<1>15. CASE PresentFenceTimeout
  BY <1>15 DEF PresentFenceTimeout, TakeoverFails
<1>16. CASE PresentBeginWrite
  BY <1>16 DEF PresentBeginWrite, BeginWrite
<1>17. CASE PresentWriteFails
  BY <1>17 DEF PresentWriteFails, TakeoverFails
<1>18. CASE PresentEndWrite
  BY <1>18 DEF PresentEndWrite, EndWrite
<1>19. CASE PresentRestart
  BY <1>19 DEF PresentRestart, RestartForArm, RestartFallback, RestartWorks, ClocksFor
<1>20. CASE PresentRestartFails
  BY <1>20 DEF PresentRestartFails, RestartRefused, RestartFails, ClocksFor
<1>21. CASE PresentNotActive
  BY <1>21 DEF PresentNotActive, TakeoverFails
<1>22. CASE PresentDone
  BY <1>22 DEF PresentDone, Commit, SlotIndex, BackOverlay
<1>23. CASE Restore
  BY <1>23 DEF Restore, RestoreList
<1>24. CASE RestoreStart
  BY <1>24 DEF RestoreStart, RestoreRestart, RestartWorks, ClocksFor
<1>25. CASE RestoreEnd
  BY <1>25 DEF RestoreEnd, RestoreDone
<1>26. CASE RestoreBroken
  BY <1>26 DEF RestoreBroken, RestoreGivesUp
<1>27. CASE Legacy
  BY <1>27 DEF Legacy
<1>28. CASE Free
  BY <1>28 DEF Free, StagingKept, StagingReplaced, NoTarget
<1>29. ASSUME NEW c \in Calls, Core1Call(c) PROVE LayerData'
  BY <1>29 DEF Core1Call, Begin
<1>30. CASE Return
  BY <1>30 DEF Return
<1>31. CASE Hvs
  BY <1>31 DEF Hvs, VBlank
<1>32. CASE UNCHANGED vars
  BY <1>32 DEF vars
<1> QED BY <1>1, <1>2, <1>3, <1>4, <1>5, <1>6, <1>7, <1>8, <1>9, <1>10, <1>11, <1>12,
  <1>13, <1>14, <1>15, <1>16, <1>17, <1>18, <1>19, <1>20, <1>21, <1>22, <1>23, <1>24, <1>25,
  <1>26, <1>27, <1>28, <1>29, <1>30, <1>31, <1>32
  DEF Next, Run, LayerStep, Enter, Render, PresentPlanes, RestoreFirmwareScanout

LEMMA KmsDataStep ==
  TypeOK /\ KmsData /\ ListWanted /\ [Next]_vars => KmsData'
<1> SUFFICES ASSUME TypeOK, KmsData, ListWanted, [Next]_vars PROVE KmsData'
  OBVIOUS
<1> USE DEF callVars, kmsVars, driverVars, hardwareVars, layerVars, GoTo, Leaves, Failed,
  Back, KmsData, ListSlots, FirmwareList, Timings, ClockRates
<1>1. CASE EnterPresent
  BY <1>1 DEF EnterPresent
<1>2. CASE EnterPresentTimeout
  BY <1>2 DEF EnterPresentTimeout, TakeoverFails
<1>3. CASE EnterPreview
  BY <1>3 DEF EnterPreview
<1>4. CASE EnterSetting
  BY <1>4 DEF EnterSetting
<1>5. CASE EnterShow
  BY <1>5 DEF EnterShow, StagingKept, StagingReplaced
<1>6. CASE EnterHide
  BY <1>6 DEF EnterHide, Hiding, AfterHide
<1>7. CASE RenderNothing
  BY <1>7 DEF RenderNothing
<1>8. CASE RenderFails
  BY <1>8 DEF RenderFails
<1>9. ASSUME NEW copied \in BOOLEAN, RenderDone(copied) PROVE KmsData'
  BY <1>9 DEF RenderDone, NextSequence
<1>10. CASE TryRefused
  BY <1>10 DEF TryRefused
<1>11. CASE TryNoOverlay
  BY <1>11 DEF TryNoOverlay
<1>12. CASE TryPi4KmsPresent
  <2>1. planes' \in Planes
    BY <1>12, PlanesTyped DEF TryPi4KmsPresent
  <2>2. planes'.layout \in Layouts
    BY <2>1 DEF Planes
  <2>3. template' \in [ListSlots -> Layouts \cup {NoLayout}]
    BY <1>12, <2>2 DEF TryPi4KmsPresent, FillTemplate
  <2> QED BY <1>12, <2>3 DEF TryPi4KmsPresent
<1>13. CASE PresentCapture
  BY <1>13 DEF PresentCapture, Captured, CaptureDeferred
<1>14. CASE PresentClaim
  BY <1>14 DEF PresentClaim, NotifyFirmwareDisplayDone, TakeoverFails
<1>15. CASE PresentFenceTimeout
  BY <1>15 DEF PresentFenceTimeout, TakeoverFails
<1>16. CASE PresentBeginWrite
  BY <1>16 DEF PresentBeginWrite, BeginWrite, SlotIndex
<1>17. CASE PresentWriteFails
  BY <1>17 DEF PresentWriteFails, TakeoverFails
<1>18. CASE PresentEndWrite
  <2>1. SlotIndex \in ListSlots
    BY DEF SlotIndex
  <2>2. template[SlotIndex] = planes.layout /\ planes \in Planes
    BY <1>18 DEF PresentEndWrite, ListWanted, PresentSteps
  <2>3. list' \in [ListSlots -> Planes \cup {NoList, Torn}]
    BY <1>18, <2>1, <2>2 DEF PresentEndWrite, EndWrite, Planes
  <2> QED BY <1>18, <2>1, <2>3 DEF PresentEndWrite, EndWrite
<1>19. CASE PresentRestart
  BY <1>19 DEF PresentRestart, RestartForArm, RestartFallback, RestartWorks, ClocksFor
<1>20. CASE PresentRestartFails
  BY <1>20 DEF PresentRestartFails, RestartRefused, RestartFails, ClocksFor
<1>21. CASE PresentNotActive
  BY <1>21 DEF PresentNotActive, TakeoverFails
<1>22. CASE PresentDone
  BY <1>22 DEF PresentDone, Commit, SlotIndex
<1>23. CASE Restore
  BY <1>23 DEF Restore, RestoreList
<1>24. CASE RestoreStart
  BY <1>24 DEF RestoreStart, RestoreRestart, RestartWorks, ClocksFor
<1>25. CASE RestoreEnd
  BY <1>25 DEF RestoreEnd, RestoreDone
<1>26. CASE RestoreBroken
  BY <1>26 DEF RestoreBroken, RestoreGivesUp
<1>27. CASE Legacy
  BY <1>27 DEF Legacy
<1>28. CASE Free
  BY <1>28 DEF Free, StagingKept, StagingReplaced
<1>29. ASSUME NEW c \in Calls, Core1Call(c) PROVE KmsData'
  BY <1>29 DEF Core1Call, Begin
<1>30. CASE Return
  BY <1>30 DEF Return
<1>31. CASE Hvs
  BY <1>31 DEF Hvs, VBlank
<1>32. CASE UNCHANGED vars
  BY <1>32 DEF vars
<1> QED BY <1>1, <1>2, <1>3, <1>4, <1>5, <1>6, <1>7, <1>8, <1>9, <1>10, <1>11, <1>12,
  <1>13, <1>14, <1>15, <1>16, <1>17, <1>18, <1>19, <1>20, <1>21, <1>22, <1>23, <1>24, <1>25,
  <1>26, <1>27, <1>28, <1>29, <1>30, <1>31, <1>32
  DEF Next, Run, LayerStep, Enter, Render, PresentPlanes, RestoreFirmwareScanout

LEMMA TakeoverStepsStep ==
  TypeOK /\ TakeoverSteps /\ [Next]_vars => TakeoverSteps'
<1> SUFFICES ASSUME TypeOK, TakeoverSteps, [Next]_vars PROVE TakeoverSteps'
  OBVIOUS
<1> USE DEF callVars, kmsVars, driverVars, hardwareVars, layerVars, GoTo, Leaves, Failed,
  Back, TypeOK, KmsTypeOK, LayersTypeOK, TakeoverSteps, PresentSteps, RestoreSteps,
  TakeoverReady
<1>1. CASE EnterPresent
  BY <1>1 DEF EnterPresent
<1>2. CASE EnterPresentTimeout
  BY <1>2 DEF EnterPresentTimeout, TakeoverFails, FenceTimeout, MustWait
<1>3. CASE EnterPreview
  BY <1>3 DEF EnterPreview
<1>4. CASE EnterSetting
  BY <1>4 DEF EnterSetting
<1>5. CASE EnterShow
  BY <1>5 DEF EnterShow, StagingKept, StagingReplaced
<1>6. CASE EnterHide
  BY <1>6 DEF EnterHide, Hiding, AfterHide
<1>7. CASE RenderNothing
  BY <1>7 DEF RenderNothing
<1>8. CASE RenderFails
  BY <1>8 DEF RenderFails
<1>9. ASSUME NEW copied \in BOOLEAN, RenderDone(copied) PROVE TakeoverSteps'
  BY <1>9 DEF RenderDone, NextSequence
<1>10. CASE TryRefused
  BY <1>10 DEF TryRefused
<1>11. CASE TryNoOverlay
  BY <1>11 DEF TryNoOverlay
<1>12. CASE TryPi4KmsPresent
  BY <1>12 DEF TryPi4KmsPresent, FillTemplate, Eligible
<1>13. CASE PresentCapture
  <2>1. CASE Captured /\ GoTo("Claim")
    <3>1. saved' <=> saved \/ ~committed
      BY <2>1 DEF Captured
    <3>2. UNCHANGED <<requested, plan, claimed, committed, takeoverActive, takeoverFailed,
                      nativeModeFailed, restoreFailed>> /\ step' = "Claim" /\ step = "Capture"
      BY <1>13, <2>1 DEF PresentCapture, Captured
    <3> QED BY <3>1, <3>2
  <2>2. CASE CaptureDeferred /\ Leaves("Legacy")
    BY <1>13, <2>2 DEF PresentCapture, CaptureDeferred
  <2> QED BY <1>13, <2>1, <2>2 DEF PresentCapture
<1>14. CASE PresentClaim
  <2>1. CASE NotifyFirmwareDisplayDone /\ GoTo("Fence")
    <3>1. claimed'
      BY <2>1 DEF NotifyFirmwareDisplayDone
    <3>2. UNCHANGED <<requested, plan, committed, takeoverActive, takeoverFailed, saved,
                      nativeModeFailed, restoreFailed>> /\ step' = "Fence" /\ step = "Claim"
      BY <1>14, <2>1 DEF PresentClaim, NotifyFirmwareDisplayDone
    <3> QED BY <3>1, <3>2
  <2>2. CASE TakeoverFails /\ UNCHANGED hardwareVars /\ Leaves("Legacy")
    BY <1>14, <2>2 DEF PresentClaim, TakeoverFails
  <2> QED BY <1>14, <2>1, <2>2 DEF PresentClaim
<1>15. CASE PresentFenceTimeout
  BY <1>15 DEF PresentFenceTimeout, TakeoverFails, FenceTimeout, MustWait
<1>16. CASE PresentBeginWrite
  BY <1>16 DEF PresentBeginWrite, BeginWrite
<1>17. CASE PresentWriteFails
  BY <1>17 DEF PresentWriteFails, TakeoverFails
<1>18. CASE PresentEndWrite
  BY <1>18 DEF PresentEndWrite, EndWrite
<1>19. CASE PresentRestart
  <2>1. UNCHANGED <<requested, plan, claimed, committed, takeoverActive, takeoverFailed, saved,
                    restoreFailed>> /\ step' = "Verify" /\ step = "Restart"
    BY <1>19 DEF PresentRestart, RestartForArm, RestartFallback
  <2>2. plan = "changed" => UNCHANGED nativeModeFailed
    BY <1>19 DEF PresentRestart, RestartForArm, RestartFallback, FallbackAllowed
  <2> QED BY <2>1, <2>2
<1>20. CASE PresentRestartFails
  BY <1>20 DEF PresentRestartFails, RestartRefused, RestartFails, ClocksFor, NativePlan
<1>21. CASE PresentNotActive
  BY <1>21 DEF PresentNotActive, TakeoverFails
<1>22. CASE PresentDone
  BY <1>22 DEF PresentDone, Commit
<1>23. CASE Restore
  BY <1>23 DEF Restore, RestoreList
<1>24. CASE RestoreStart
  BY <1>24 DEF RestoreStart, RestoreRestart, RestartWorks, ClocksFor
<1>25. CASE RestoreEnd
  BY <1>25 DEF RestoreEnd, RestoreDone
<1>26. CASE RestoreBroken
  BY <1>26 DEF RestoreBroken, RestoreGivesUp
<1>27. CASE Legacy
  BY <1>27 DEF Legacy
<1>28. CASE Free
  BY <1>28 DEF Free, StagingKept, StagingReplaced
<1>29. ASSUME NEW c \in Calls, Core1Call(c) PROVE TakeoverSteps'
  BY <1>29 DEF Core1Call, Begin
<1>30. CASE Return
  BY <1>30 DEF Return
<1>31. CASE Hvs
  BY <1>31 DEF Hvs, VBlank
<1>32. CASE UNCHANGED vars
  BY <1>32 DEF vars
<1> QED BY <1>1, <1>2, <1>3, <1>4, <1>5, <1>6, <1>7, <1>8, <1>9, <1>10, <1>11, <1>12,
  <1>13, <1>14, <1>15, <1>16, <1>17, <1>18, <1>19, <1>20, <1>21, <1>22, <1>23, <1>24, <1>25,
  <1>26, <1>27, <1>28, <1>29, <1>30, <1>31, <1>32
  DEF Next, Run, LayerStep, Enter, Render, PresentPlanes, RestoreFirmwareScanout

\* What the registers hold at each step.
ScanState ==
  /\ committed => running /\ active \in ListSlots
                    /\ pending = IF step = "Verify" THEN SlotIndex ELSE submitted
  /\ committed /\ step = "EndWrite" => active = submitted
  /\ ~committed /\ ~restoreFailed /\ step \notin {"Restart", "Verify"} \cup RestoreSteps
       => active = FirmwareList /\ pending = FirmwareList /\ timing = "firmware"
  /\ ~committed /\ ~restoreFailed /\ step \notin {"Fence", "EndWrite", "Restart", "Verify"} \cup RestoreSteps
       => running
  /\ ~committed /\ step \in {"Fence", "EndWrite", "Restart"} => ~running
  /\ ~committed /\ step = "Restart" => pending = 0 /\ active = FirmwareList
  /\ ~committed /\ step = "Verify" => running /\ pending = 0 /\ active \in {FirmwareList, 0}
                                       /\ (plan = "changed" => timing = "native")
  /\ step \in {"RestoreRestart", "RestoreWait"} => pending = FirmwareList
  /\ step = "RestoreWait" => timing = "firmware"

\* No register names a list that is being written.
WholeLists == \A s \in ListSlots : s \in {active, pending} => list[s] # Torn


LEMMA ScanStateStep ==
  TypeOK /\ TakeoverSteps /\ ScanState /\ [Next]_vars => ScanState'
<1> SUFFICES ASSUME TypeOK, TakeoverSteps, ScanState, [Next]_vars PROVE ScanState'
  OBVIOUS
<1> USE DEF callVars, kmsVars, driverVars, hardwareVars, layerVars, GoTo, Leaves, Failed,
  Back, TypeOK, KmsTypeOK, LayersTypeOK, TakeoverSteps, PresentSteps, RestoreSteps,
  TakeoverReady, ListSlots, ScanState, FirmwareList, SlotIndex
<1>1. CASE EnterPresent
  BY <1>1 DEF EnterPresent
<1>2. CASE EnterPresentTimeout
  BY <1>2 DEF EnterPresentTimeout, TakeoverFails, FenceTimeout, MustWait
<1>3. CASE EnterPreview
  BY <1>3 DEF EnterPreview
<1>4. CASE EnterSetting
  BY <1>4 DEF EnterSetting
<1>5. CASE EnterShow
  BY <1>5 DEF EnterShow, StagingKept, StagingReplaced
<1>6. CASE EnterHide
  BY <1>6 DEF EnterHide, Hiding, AfterHide
<1>7. CASE RenderNothing
  BY <1>7 DEF RenderNothing
<1>8. CASE RenderFails
  BY <1>8 DEF RenderFails
<1>9. ASSUME NEW copied \in BOOLEAN, RenderDone(copied) PROVE ScanState'
  BY <1>9 DEF RenderDone, NextSequence
<1>10. CASE TryRefused
  BY <1>10 DEF TryRefused
<1>11. CASE TryNoOverlay
  BY <1>11 DEF TryNoOverlay
<1>12. CASE TryPi4KmsPresent
  BY <1>12 DEF TryPi4KmsPresent, FillTemplate, Eligible
<1>13. CASE PresentCapture
  <2>1. CASE Captured /\ GoTo("Claim")
    BY <1>13, <2>1 DEF PresentCapture, Captured
  <2>2. CASE CaptureDeferred /\ Leaves("Legacy")
    BY <1>13, <2>2 DEF PresentCapture, CaptureDeferred
  <2> QED BY <1>13, <2>1, <2>2 DEF PresentCapture
<1>14. CASE PresentClaim
  <2>1. CASE NotifyFirmwareDisplayDone /\ GoTo("Fence")
    <3>1. claimed' /\ (running' <=> claimed /\ running)
      BY <2>1 DEF NotifyFirmwareDisplayDone
    <3>2. /\ UNCHANGED <<requested, plan, committed, takeoverActive, takeoverFailed,
                         nativeModeFailed, saved, submitted, template, restoreFailed,
                         list, pending, active, timing, clocks>>
          /\ step = "Claim" /\ step' = "Fence" /\ UNCHANGED <<call, planes, next, frame, layerVars>>
      BY <1>14, <2>1 DEF PresentClaim, NotifyFirmwareDisplayDone
    <3> QED BY <3>1, <3>2
  <2>2. CASE TakeoverFails /\ UNCHANGED hardwareVars /\ Leaves("Legacy")
    BY <1>14, <2>2 DEF PresentClaim, TakeoverFails
  <2> QED BY <1>14, <2>1, <2>2 DEF PresentClaim
<1>15. CASE PresentFenceTimeout
  BY <1>15 DEF PresentFenceTimeout, TakeoverFails, FenceTimeout, MustWait
<1>16. CASE PresentBeginWrite
  BY <1>16 DEF PresentBeginWrite, BeginWrite, FencePassed, MustWait
<1>17. CASE PresentWriteFails
  BY <1>17 DEF PresentWriteFails, TakeoverFails
<1>18. CASE PresentEndWrite
  BY <1>18 DEF PresentEndWrite, EndWrite
<1>19. CASE PresentRestart
  <2>1. CASE RestartForArm
    BY <1>19, <2>1 DEF PresentRestart, RestartForArm, RestartWorks, ClocksFor, NativePlan
  <2>2. CASE RestartFallback
    BY <1>19, <2>2 DEF PresentRestart, RestartFallback, FallbackAllowed, RestartWorks, ClocksFor
  <2> QED BY <1>19, <2>1, <2>2 DEF PresentRestart
<1>20. CASE PresentRestartFails
  BY <1>20 DEF PresentRestartFails, RestartRefused, RestartFails, ClocksFor, NativePlan
<1>21. CASE PresentNotActive
  BY <1>21 DEF PresentNotActive, TakeoverFails, FirstListActive
<1>22. CASE PresentDone
  BY <1>22 DEF PresentDone, Commit, FirstListActive
<1>23. CASE Restore
  BY <1>23 DEF Restore, RestoreList
<1>24. CASE RestoreStart
  BY <1>24 DEF RestoreStart, RestoreRestart, RestartWorks, ClocksFor
<1>25. CASE RestoreEnd
  BY <1>25 DEF RestoreEnd, RestoreDone, Restored
<1>26. CASE RestoreBroken
  BY <1>26 DEF RestoreBroken, RestoreGivesUp
<1>27. CASE Legacy
  BY <1>27 DEF Legacy
<1>28. CASE Free
  BY <1>28 DEF Free, StagingKept, StagingReplaced
<1>29. ASSUME NEW c \in Calls, Core1Call(c) PROVE ScanState'
  BY <1>29 DEF Core1Call, Begin
<1>30. CASE Return
  BY <1>30 DEF Return
<1>31. CASE Hvs
  BY <1>31 DEF Hvs, VBlank
<1>32. CASE UNCHANGED vars
  BY <1>32 DEF vars
<1> QED BY <1>1, <1>2, <1>3, <1>4, <1>5, <1>6, <1>7, <1>8, <1>9, <1>10, <1>11, <1>12,
  <1>13, <1>14, <1>15, <1>16, <1>17, <1>18, <1>19, <1>20, <1>21, <1>22, <1>23, <1>24, <1>25,
  <1>26, <1>27, <1>28, <1>29, <1>30, <1>31, <1>32
  DEF Next, Run, LayerStep, Enter, Render, PresentPlanes, RestoreFirmwareScanout


\* What the clocks are at each step, and that a takeover that has to be undone
\* knows of a native mode of another size.
ClockState ==
  /\ committed => clocks = timing
  /\ ~committed /\ ~takeoverFailed /\ step # "Verify"
       => ~nativeModeFailed /\ ~nativeModeActive /\ clocks = "firmware"
  /\ ~committed /\ step = "Verify"
       => /\ clocks = timing \/ (plan = "same" /\ nativeModeFailed)
          /\ plan = "none" => clocks = "firmware"
          /\ plan = "changed" => nativeModeActive
  /\ ~committed /\ plan # "same" /\ step # "Verify"
       => clocks = "firmware" \/ (step = "Restore" /\ ClocksToRestore)

LEMMA ClockStateStep ==
  TypeOK /\ TakeoverSteps /\ ClockState /\ [Next]_vars => ClockState'
<1> SUFFICES ASSUME TypeOK, TakeoverSteps, ClockState, [Next]_vars PROVE ClockState'
  OBVIOUS
<1> USE DEF callVars, kmsVars, driverVars, hardwareVars, layerVars, GoTo, Leaves, Failed,
  Back, TypeOK, KmsTypeOK, LayersTypeOK, TakeoverSteps, PresentSteps, RestoreSteps,
  TakeoverReady, ListSlots, ClockState, ClocksToRestore, NativePlan
<1>1. CASE EnterPresent
  BY <1>1 DEF EnterPresent
<1>2. CASE EnterPresentTimeout
  BY <1>2 DEF EnterPresentTimeout, TakeoverFails, FenceTimeout, MustWait
<1>3. CASE EnterPreview
  BY <1>3 DEF EnterPreview
<1>4. CASE EnterSetting
  BY <1>4 DEF EnterSetting
<1>5. CASE EnterShow
  BY <1>5 DEF EnterShow, StagingKept, StagingReplaced
<1>6. CASE EnterHide
  BY <1>6 DEF EnterHide, Hiding, AfterHide
<1>7. CASE RenderNothing
  BY <1>7 DEF RenderNothing
<1>8. CASE RenderFails
  BY <1>8 DEF RenderFails
<1>9. ASSUME NEW copied \in BOOLEAN, RenderDone(copied) PROVE ClockState'
  BY <1>9 DEF RenderDone, NextSequence
<1>10. CASE TryRefused
  BY <1>10 DEF TryRefused
<1>11. CASE TryNoOverlay
  BY <1>11 DEF TryNoOverlay
<1>12. CASE TryPi4KmsPresent
  BY <1>12 DEF TryPi4KmsPresent, FillTemplate, Eligible
<1>13. CASE PresentCapture
  <2>1. CASE Captured /\ GoTo("Claim")
    BY <1>13, <2>1 DEF PresentCapture, Captured
  <2>2. CASE CaptureDeferred /\ Leaves("Legacy")
    BY <1>13, <2>2 DEF PresentCapture, CaptureDeferred
  <2> QED BY <1>13, <2>1, <2>2 DEF PresentCapture
<1>14. CASE PresentClaim
  <2>1. CASE NotifyFirmwareDisplayDone /\ GoTo("Fence")
    <3>1. claimed' /\ (running' <=> claimed /\ running)
      BY <2>1 DEF NotifyFirmwareDisplayDone
    <3>2. /\ UNCHANGED <<requested, plan, committed, takeoverActive, takeoverFailed,
                         nativeModeActive, nativeModeFailed, saved, submitted, template, restoreFailed,
                         list, pending, active, timing, clocks>>
          /\ step = "Claim" /\ step' = "Fence" /\ UNCHANGED <<call, planes, next, frame, layerVars>>
      BY <1>14, <2>1 DEF PresentClaim, NotifyFirmwareDisplayDone
    <3> QED BY <3>1, <3>2
  <2>2. CASE TakeoverFails /\ UNCHANGED hardwareVars /\ Leaves("Legacy")
    BY <1>14, <2>2 DEF PresentClaim, TakeoverFails
  <2> QED BY <1>14, <2>1, <2>2 DEF PresentClaim
<1>15. CASE PresentFenceTimeout
  BY <1>15 DEF PresentFenceTimeout, TakeoverFails, FenceTimeout, MustWait
<1>16. CASE PresentBeginWrite
  BY <1>16 DEF PresentBeginWrite, BeginWrite, FencePassed, MustWait
<1>17. CASE PresentWriteFails
  BY <1>17 DEF PresentWriteFails, TakeoverFails
<1>18. CASE PresentEndWrite
  BY <1>18 DEF PresentEndWrite, EndWrite
<1>19. CASE PresentRestart
  <2>1. CASE RestartForArm
    <3>1. nativeModeActive' <=> NativePlan
      BY <2>1 DEF RestartForArm
    <3>2. /\ UNCHANGED <<requested, plan, claimed, committed, takeoverActive, takeoverFailed,
                         nativeModeFailed>>
          /\ timing' = (IF NativePlan THEN "native" ELSE "firmware")
          /\ clocks' = (IF NativePlan THEN "native" ELSE clocks)
          /\ step = "Restart" /\ step' = "Verify"
      BY <1>19, <2>1 DEF PresentRestart, RestartForArm, RestartWorks, ClocksFor
    <3>3. ~committed /\ ~takeoverFailed /\ ~nativeModeFailed /\ clocks = "firmware"
      BY <3>2
    <3> QED BY <3>1, <3>2, <3>3
  <2>2. CASE RestartFallback
    BY <1>19, <2>2 DEF PresentRestart, RestartFallback, FallbackAllowed, RestartWorks, ClocksFor
  <2> QED BY <1>19, <2>1, <2>2 DEF PresentRestart
<1>20. CASE PresentRestartFails
  <2>1. /\ UNCHANGED <<plan, claimed, committed, takeoverActive, nativeModeActive>>
        /\ takeoverFailed' = TRUE /\ step = "Restart" /\ step' = "Restore" /\ ~committed
    BY <1>20 DEF PresentRestartFails, RestartRefused
  <2>2. ~takeoverFailed /\ ~nativeModeFailed /\ clocks = "firmware"
    BY <2>1
  <2>3. NativePlan => nativeModeFailed'
    BY <1>20, Zenon DEF PresentRestartFails, RestartRefused
  <2>4. plan = "none" => clocks' = clocks
    BY <1>20 DEF PresentRestartFails, RestartRefused, RestartFails, ClocksFor, FallbackAllowed
  <2> QED BY <2>1, <2>2, <2>3, <2>4, PlansAssumption
<1>21. CASE PresentNotActive
  BY <1>21, PlansAssumption DEF PresentNotActive, TakeoverFails, FirstListActive
<1>22. CASE PresentDone
  BY <1>22 DEF PresentDone, Commit, FirstListActive
<1>23. CASE Restore
  BY <1>23 DEF Restore, RestoreList
<1>24. CASE RestoreStart
  BY <1>24 DEF RestoreStart, RestoreRestart, RestartWorks, ClocksFor
<1>25. CASE RestoreEnd
  BY <1>25 DEF RestoreEnd, RestoreDone, Restored
<1>26. CASE RestoreBroken
  BY <1>26 DEF RestoreBroken, RestoreGivesUp
<1>27. CASE Legacy
  BY <1>27 DEF Legacy
<1>28. CASE Free
  BY <1>28 DEF Free, StagingKept, StagingReplaced
<1>29. ASSUME NEW c \in Calls, Core1Call(c) PROVE ClockState'
  BY <1>29 DEF Core1Call, Begin
<1>30. CASE Return
  BY <1>30 DEF Return
<1>31. CASE Hvs
  BY <1>31 DEF Hvs, VBlank
<1>32. CASE UNCHANGED vars
  BY <1>32 DEF vars
<1> QED BY <1>1, <1>2, <1>3, <1>4, <1>5, <1>6, <1>7, <1>8, <1>9, <1>10, <1>11, <1>12,
  <1>13, <1>14, <1>15, <1>16, <1>17, <1>18, <1>19, <1>20, <1>21, <1>22, <1>23, <1>24, <1>25,
  <1>26, <1>27, <1>28, <1>29, <1>30, <1>31, <1>32
  DEF Next, Run, LayerStep, Enter, Render, PresentPlanes, RestoreFirmwareScanout

LEMMA WholeListsStep ==
  TypeOK /\ TakeoverSteps /\ ScanState /\ WholeLists /\ ListWanted /\ [Next]_vars => WholeLists'
<1> SUFFICES ASSUME TypeOK, TakeoverSteps, ScanState, WholeLists, ListWanted, [Next]_vars
  PROVE WholeLists'
  OBVIOUS
<1> USE DEF callVars, kmsVars, driverVars, hardwareVars, layerVars, GoTo, Leaves, Failed,
  Back, TypeOK, KmsTypeOK, LayersTypeOK, TakeoverSteps, PresentSteps, RestoreSteps,
  TakeoverReady, ListSlots, ScanState, WholeLists, FirmwareList, SlotIndex
<1>1. CASE EnterPresent
  BY <1>1 DEF EnterPresent
<1>2. CASE EnterPresentTimeout
  BY <1>2 DEF EnterPresentTimeout, TakeoverFails
<1>3. CASE EnterPreview
  BY <1>3 DEF EnterPreview
<1>4. CASE EnterSetting
  BY <1>4 DEF EnterSetting
<1>5. CASE EnterShow
  BY <1>5 DEF EnterShow, StagingKept, StagingReplaced
<1>6. CASE EnterHide
  BY <1>6 DEF EnterHide, Hiding, AfterHide
<1>7. CASE RenderNothing
  BY <1>7 DEF RenderNothing
<1>8. CASE RenderFails
  BY <1>8 DEF RenderFails
<1>9. ASSUME NEW copied \in BOOLEAN, RenderDone(copied) PROVE WholeLists'
  BY <1>9 DEF RenderDone, NextSequence
<1>10. CASE TryRefused
  BY <1>10 DEF TryRefused
<1>11. CASE TryNoOverlay
  BY <1>11 DEF TryNoOverlay
<1>12. CASE TryPi4KmsPresent
  BY <1>12 DEF TryPi4KmsPresent, FillTemplate
<1>13. CASE PresentCapture
  <2>1. CASE Captured /\ GoTo("Claim")
    BY <1>13, <2>1 DEF PresentCapture, Captured
  <2>2. CASE CaptureDeferred /\ Leaves("Legacy")
    BY <1>13, <2>2 DEF PresentCapture, CaptureDeferred
  <2> QED BY <1>13, <2>1, <2>2 DEF PresentCapture
<1>14. CASE PresentClaim
  <2>1. CASE NotifyFirmwareDisplayDone /\ GoTo("Fence")
    <3>1. claimed' /\ (running' <=> claimed /\ running)
      BY <2>1 DEF NotifyFirmwareDisplayDone
    <3>2. /\ UNCHANGED <<requested, plan, committed, takeoverActive, takeoverFailed,
                         nativeModeFailed, saved, submitted, template, restoreFailed,
                         list, pending, active, timing, clocks>>
          /\ step = "Claim" /\ step' = "Fence" /\ UNCHANGED <<call, planes, next, frame, layerVars>>
      BY <1>14, <2>1 DEF PresentClaim, NotifyFirmwareDisplayDone
    <3> QED BY <3>1, <3>2
  <2>2. CASE TakeoverFails /\ UNCHANGED hardwareVars /\ Leaves("Legacy")
    BY <1>14, <2>2 DEF PresentClaim, TakeoverFails
  <2> QED BY <1>14, <2>1, <2>2 DEF PresentClaim
<1>15. CASE PresentFenceTimeout
  BY <1>15 DEF PresentFenceTimeout, TakeoverFails
<1>16. CASE PresentBeginWrite
  BY <1>16 DEF PresentBeginWrite, BeginWrite, FencePassed, MustWait
<1>17. CASE PresentWriteFails
  BY <1>17 DEF PresentWriteFails, TakeoverFails
<1>18. CASE PresentEndWrite
  BY <1>18 DEF PresentEndWrite, EndWrite, ListWanted, Planes, Layouts, Torn, NoLayout
<1>19. CASE PresentRestart
  <2>1. CASE RestartForArm
    BY <1>19, <2>1 DEF PresentRestart, RestartForArm, RestartWorks, ClocksFor, NativePlan
  <2>2. CASE RestartFallback
    BY <1>19, <2>2 DEF PresentRestart, RestartFallback, FallbackAllowed, RestartWorks, ClocksFor
  <2> QED BY <1>19, <2>1, <2>2 DEF PresentRestart
<1>20. CASE PresentRestartFails
  BY <1>20 DEF PresentRestartFails, RestartRefused, RestartFails, ClocksFor
<1>21. CASE PresentNotActive
  BY <1>21 DEF PresentNotActive, TakeoverFails
<1>22. CASE PresentDone
  BY <1>22 DEF PresentDone, Commit
<1>23. CASE Restore
  BY <1>23 DEF Restore, RestoreList
<1>24. CASE RestoreStart
  BY <1>24 DEF RestoreStart, RestoreRestart, RestartWorks, ClocksFor
<1>25. CASE RestoreEnd
  BY <1>25 DEF RestoreEnd, RestoreDone, Restored
<1>26. CASE RestoreBroken
  BY <1>26 DEF RestoreBroken, RestoreGivesUp
<1>27. CASE Legacy
  BY <1>27 DEF Legacy
<1>28. CASE Free
  BY <1>28 DEF Free, StagingKept, StagingReplaced
<1>29. ASSUME NEW c \in Calls, Core1Call(c) PROVE WholeLists'
  BY <1>29 DEF Core1Call, Begin
<1>30. CASE Return
  BY <1>30 DEF Return
<1>31. CASE Hvs
  BY <1>31 DEF Hvs, VBlank
<1>32. CASE UNCHANGED vars
  BY <1>32 DEF vars
<1> QED BY <1>1, <1>2, <1>3, <1>4, <1>5, <1>6, <1>7, <1>8, <1>9, <1>10, <1>11, <1>12,
  <1>13, <1>14, <1>15, <1>16, <1>17, <1>18, <1>19, <1>20, <1>21, <1>22, <1>23, <1>24, <1>25,
  <1>26, <1>27, <1>28, <1>29, <1>30, <1>31, <1>32
  DEF Next, Run, LayerStep, Enter, Render, PresentPlanes, RestoreFirmwareScanout

LEMMA ListWantedStep ==
  TypeOK /\ TakeoverSteps /\ ScanState /\ ListWanted /\ [Next]_vars => ListWanted'
<1> SUFFICES ASSUME TypeOK, TakeoverSteps, ScanState, ListWanted, [Next]_vars PROVE ListWanted'
  OBVIOUS
<1> USE DEF callVars, kmsVars, driverVars, hardwareVars, layerVars, GoTo, Leaves, Failed,
  Back, TypeOK, KmsTypeOK, LayersTypeOK, TakeoverSteps, PresentSteps, RestoreSteps,
  TakeoverReady, ListSlots, ScanState, ListWanted, SlotIndex
<1>1. CASE EnterPresent
  BY <1>1 DEF EnterPresent
<1>2. CASE EnterPresentTimeout
  BY <1>2 DEF EnterPresentTimeout, TakeoverFails
<1>3. CASE EnterPreview
  BY <1>3 DEF EnterPreview
<1>4. CASE EnterSetting
  BY <1>4 DEF EnterSetting
<1>5. CASE EnterShow
  BY <1>5 DEF EnterShow, StagingKept, StagingReplaced
<1>6. CASE EnterHide
  BY <1>6 DEF EnterHide, Hiding, AfterHide
<1>7. CASE RenderNothing
  BY <1>7 DEF RenderNothing
<1>8. CASE RenderFails
  BY <1>8 DEF RenderFails
<1>9. ASSUME NEW copied \in BOOLEAN, RenderDone(copied) PROVE ListWanted'
  BY <1>9 DEF RenderDone, NextSequence
<1>10. CASE TryRefused
  BY <1>10 DEF TryRefused
<1>11. CASE TryNoOverlay
  BY <1>11 DEF TryNoOverlay
<1>12. CASE TryPi4KmsPresent
  <2>1. planes' \in Planes /\ step' \in {"Fence", "Capture"} /\ UNCHANGED <<takeoverActive, submitted>>
    BY <1>12, PlanesTyped DEF TryPi4KmsPresent
  <2>2. SlotIndex \in ListSlots
    BY DEF SlotIndex
  <2>3. template' = [template EXCEPT ![SlotIndex] = IF template[SlotIndex] = planes'.layout
                                                    THEN @ ELSE planes'.layout]
    BY <1>12 DEF TryPi4KmsPresent, FillTemplate, MatchesDlistTemplate
  <2>4. template'[SlotIndex] = planes'.layout
    BY <2>2, <2>3
  <2> QED BY <2>1, <2>4
<1>13. CASE PresentCapture
  <2>1. CASE Captured /\ GoTo("Claim")
    BY <1>13, <2>1 DEF PresentCapture, Captured
  <2>2. CASE CaptureDeferred /\ Leaves("Legacy")
    BY <1>13, <2>2 DEF PresentCapture, CaptureDeferred
  <2> QED BY <1>13, <2>1, <2>2 DEF PresentCapture
<1>14. CASE PresentClaim
  <2>1. CASE NotifyFirmwareDisplayDone /\ GoTo("Fence")
    <3>1. claimed' /\ (running' <=> claimed /\ running)
      BY <2>1 DEF NotifyFirmwareDisplayDone
    <3>2. /\ UNCHANGED <<requested, plan, committed, takeoverActive, takeoverFailed,
                         nativeModeFailed, saved, submitted, template, restoreFailed,
                         list, pending, active, timing, clocks>>
          /\ step = "Claim" /\ step' = "Fence" /\ UNCHANGED <<call, planes, next, frame, layerVars>>
      BY <1>14, <2>1 DEF PresentClaim, NotifyFirmwareDisplayDone
    <3> QED BY <3>1, <3>2
  <2>2. CASE TakeoverFails /\ UNCHANGED hardwareVars /\ Leaves("Legacy")
    BY <1>14, <2>2 DEF PresentClaim, TakeoverFails
  <2> QED BY <1>14, <2>1, <2>2 DEF PresentClaim
<1>15. CASE PresentFenceTimeout
  BY <1>15 DEF PresentFenceTimeout, TakeoverFails
<1>16. CASE PresentBeginWrite
  BY <1>16 DEF PresentBeginWrite, BeginWrite, FencePassed, MustWait
<1>17. CASE PresentWriteFails
  BY <1>17 DEF PresentWriteFails, TakeoverFails
<1>18. CASE PresentEndWrite
  BY <1>18 DEF PresentEndWrite, EndWrite, Planes
<1>19. CASE PresentRestart
  <2>1. CASE RestartForArm
    BY <1>19, <2>1 DEF PresentRestart, RestartForArm, RestartWorks, ClocksFor, NativePlan
  <2>2. CASE RestartFallback
    BY <1>19, <2>2 DEF PresentRestart, RestartFallback, FallbackAllowed, RestartWorks, ClocksFor
  <2> QED BY <1>19, <2>1, <2>2 DEF PresentRestart
<1>20. CASE PresentRestartFails
  BY <1>20 DEF PresentRestartFails, RestartRefused, RestartFails, ClocksFor
<1>21. CASE PresentNotActive
  BY <1>21 DEF PresentNotActive, TakeoverFails
<1>22. CASE PresentDone
  BY <1>22 DEF PresentDone, Commit
<1>23. CASE Restore
  BY <1>23 DEF Restore, RestoreList
<1>24. CASE RestoreStart
  BY <1>24 DEF RestoreStart, RestoreRestart, RestartWorks, ClocksFor
<1>25. CASE RestoreEnd
  BY <1>25 DEF RestoreEnd, RestoreDone
<1>26. CASE RestoreBroken
  BY <1>26 DEF RestoreBroken, RestoreGivesUp
<1>27. CASE Legacy
  BY <1>27 DEF Legacy
<1>28. CASE Free
  BY <1>28 DEF Free, StagingKept, StagingReplaced
<1>29. ASSUME NEW c \in Calls, Core1Call(c) PROVE ListWanted'
  BY <1>29 DEF Core1Call, Begin
<1>30. CASE Return
  BY <1>30 DEF Return
<1>31. CASE Hvs
  BY <1>31 DEF Hvs, VBlank
<1>32. CASE UNCHANGED vars
  BY <1>32 DEF vars
<1> QED BY <1>1, <1>2, <1>3, <1>4, <1>5, <1>6, <1>7, <1>8, <1>9, <1>10, <1>11, <1>12,
  <1>13, <1>14, <1>15, <1>16, <1>17, <1>18, <1>19, <1>20, <1>21, <1>22, <1>23, <1>24, <1>25,
  <1>26, <1>27, <1>28, <1>29, <1>30, <1>31, <1>32
  DEF Next, Run, LayerStep, Enter, Render, PresentPlanes, RestoreFirmwareScanout

---------------------------------------------------------------------------
(* Buffers and frames.                                                      *)

\* A frame scans one target of the V3D and the overlay that is not shown.
PlanesShape ==
  step \in PresentSteps =>
    /\ next \in Slots /\ scanout[next] \in Slots
    /\ planes.bufs = {Target(scanout[next])}
                       \cup (IF WithOverlay THEN {OverlayBuffer(BackOverlay)} ELSE {})

\* So does the list that was submitted last.
SubmittedBuffers ==
  committed =>
    /\ ~("v0" \in list[submitted].bufs /\ "v1" \in list[submitted].bufs)
    /\ frontValid => list[submitted].bufs \subseteq {"v0", "v1", OverlayBuffer(front)}

\* A synchronised present renders behind its fence.
RenderFenced ==
  step = "Render" /\ call.op = "Present" /\ call.sync /\ committed => active = submitted

\* The picture of a synchronised present on its way.
FrameOnItsWay ==
  call.op = "Present" /\ call.sync /\ "VIC" \in call.ready /\ crt /\ NothingFailed /\ Eligible =>
    /\ step \in {"Enter", "Render"} => frame = "new"
    /\ step = "Try" => frame = "rendered" /\ scanout[1 - rnum] = 1 - seq
    /\ step \in PresentSteps => frame = "rendered" /\ Target(1 - seq) \in planes.bufs
    /\ step \in {"Legacy", "Return"} => frame = "shown" \/ ~committed
    /\ step # "Free"


LEMMA PlanesShapeStep ==
  TypeOK /\ PlanesShape /\ [Next]_vars => PlanesShape'
<1> SUFFICES ASSUME TypeOK, PlanesShape, [Next]_vars PROVE PlanesShape'
  OBVIOUS
<1> USE DEF callVars, kmsVars, driverVars, hardwareVars, layerVars, GoTo, Leaves, Failed,
  Back, TypeOK, LayersTypeOK, PresentSteps, PlanesShape, WithOverlay, BackOverlay
<1>1. CASE EnterPresent
  BY <1>1 DEF EnterPresent
<1>2. CASE EnterPresentTimeout
  BY <1>2 DEF EnterPresentTimeout, TakeoverFails
<1>3. CASE EnterPreview
  BY <1>3 DEF EnterPreview
<1>4. CASE EnterSetting
  BY <1>4 DEF EnterSetting
<1>5. CASE EnterShow
  BY <1>5 DEF EnterShow, StagingKept, StagingReplaced
<1>6. CASE EnterHide
  BY <1>6 DEF EnterHide, Hiding, AfterHide
<1>7. CASE RenderNothing
  BY <1>7 DEF RenderNothing
<1>8. CASE RenderFails
  BY <1>8 DEF RenderFails
<1>9. ASSUME NEW copied \in BOOLEAN, RenderDone(copied) PROVE PlanesShape'
  BY <1>9 DEF RenderDone, NextSequence
<1>10. CASE TryRefused
  BY <1>10 DEF TryRefused
<1>11. CASE TryNoOverlay
  BY <1>11 DEF TryNoOverlay
<1>12. CASE TryPi4KmsPresent
  <2>1. /\ next' = NextResource /\ UNCHANGED <<scanout, showing, front, frontValid>>
        /\ planes'.bufs = {Target(scanout[NextResource])}
                       \cup (IF WithOverlay THEN {OverlayBuffer(BackOverlay)} ELSE {})
    BY <1>12 DEF TryPi4KmsPresent
  <2>2. NextResource \in Slots /\ scanout[NextResource] \in Slots
    BY <1>12, PlanesTyped DEF TryPi4KmsPresent
  <2>3. (WithOverlay' <=> WithOverlay) /\ BackOverlay' = BackOverlay
    BY <2>1 DEF WithOverlay, BackOverlay
  <2> HIDE DEF NextResource, BackOverlay, WithOverlay
  <2> QED BY <2>1, <2>2, <2>3
<1>13. CASE PresentCapture
  BY <1>13 DEF PresentCapture, Captured, CaptureDeferred
<1>14. CASE PresentClaim
  BY <1>14 DEF PresentClaim, NotifyFirmwareDisplayDone, TakeoverFails
<1>15. CASE PresentFenceTimeout
  BY <1>15 DEF PresentFenceTimeout, TakeoverFails
<1>16. CASE PresentBeginWrite
  BY <1>16 DEF PresentBeginWrite, BeginWrite
<1>17. CASE PresentWriteFails
  BY <1>17 DEF PresentWriteFails, TakeoverFails
<1>18. CASE PresentEndWrite
  BY <1>18 DEF PresentEndWrite, EndWrite
<1>19. CASE PresentRestart
  BY <1>19 DEF PresentRestart, RestartForArm, RestartFallback, RestartWorks, ClocksFor
<1>20. CASE PresentRestartFails
  BY <1>20 DEF PresentRestartFails, RestartRefused, RestartFails, ClocksFor
<1>21. CASE PresentNotActive
  BY <1>21 DEF PresentNotActive, TakeoverFails
<1>22. CASE PresentDone
  BY <1>22 DEF PresentDone, Commit
<1>23. CASE Restore
  BY <1>23 DEF Restore, RestoreList
<1>24. CASE RestoreStart
  BY <1>24 DEF RestoreStart, RestoreRestart, RestartWorks, ClocksFor
<1>25. CASE RestoreEnd
  BY <1>25 DEF RestoreEnd, RestoreDone
<1>26. CASE RestoreBroken
  BY <1>26 DEF RestoreBroken, RestoreGivesUp
<1>27. CASE Legacy
  BY <1>27 DEF Legacy
<1>28. CASE Free
  BY <1>28 DEF Free, StagingKept, StagingReplaced
<1>29. ASSUME NEW c \in Calls, Core1Call(c) PROVE PlanesShape'
  BY <1>29 DEF Core1Call, Begin
<1>30. CASE Return
  BY <1>30 DEF Return
<1>31. CASE Hvs
  BY <1>31 DEF Hvs, VBlank
<1>32. CASE UNCHANGED vars
  BY <1>32 DEF vars
<1> QED BY <1>1, <1>2, <1>3, <1>4, <1>5, <1>6, <1>7, <1>8, <1>9, <1>10, <1>11, <1>12,
  <1>13, <1>14, <1>15, <1>16, <1>17, <1>18, <1>19, <1>20, <1>21, <1>22, <1>23, <1>24, <1>25,
  <1>26, <1>27, <1>28, <1>29, <1>30, <1>31, <1>32
  DEF Next, Run, LayerStep, Enter, Render, PresentPlanes, RestoreFirmwareScanout

LEMMA RenderFencedStep ==
  TypeOK /\ TakeoverSteps /\ ScanState /\ RenderFenced /\ [Next]_vars => RenderFenced'
<1> SUFFICES ASSUME TypeOK, TakeoverSteps, ScanState, RenderFenced, [Next]_vars PROVE
  RenderFenced'
  OBVIOUS
<1> USE DEF callVars, kmsVars, driverVars, hardwareVars, layerVars, GoTo, Leaves, Failed,
  Back, TypeOK, KmsTypeOK, LayersTypeOK, TakeoverSteps, PresentSteps, RestoreSteps,
  TakeoverReady, ListSlots, ScanState, RenderFenced, SlotIndex
<1>1. CASE EnterPresent
  BY <1>1 DEF EnterPresent, FencePassed, MustWait
<1>2. CASE EnterPresentTimeout
  BY <1>2 DEF EnterPresentTimeout, TakeoverFails
<1>3. CASE EnterPreview
  BY <1>3 DEF EnterPreview
<1>4. CASE EnterSetting
  BY <1>4 DEF EnterSetting
<1>5. CASE EnterShow
  BY <1>5 DEF EnterShow, StagingKept, StagingReplaced
<1>6. CASE EnterHide
  BY <1>6 DEF EnterHide, Hiding, AfterHide
<1>7. CASE RenderNothing
  BY <1>7 DEF RenderNothing
<1>8. CASE RenderFails
  BY <1>8 DEF RenderFails
<1>9. ASSUME NEW copied \in BOOLEAN, RenderDone(copied) PROVE RenderFenced'
  BY <1>9 DEF RenderDone, NextSequence
<1>10. CASE TryRefused
  BY <1>10 DEF TryRefused
<1>11. CASE TryNoOverlay
  BY <1>11 DEF TryNoOverlay
<1>12. CASE TryPi4KmsPresent
  BY <1>12 DEF TryPi4KmsPresent, FillTemplate
<1>13. CASE PresentCapture
  <2>1. CASE Captured /\ GoTo("Claim")
    BY <1>13, <2>1 DEF PresentCapture, Captured
  <2>2. CASE CaptureDeferred /\ Leaves("Legacy")
    BY <1>13, <2>2 DEF PresentCapture, CaptureDeferred
  <2> QED BY <1>13, <2>1, <2>2 DEF PresentCapture
<1>14. CASE PresentClaim
  <2>1. CASE NotifyFirmwareDisplayDone /\ GoTo("Fence")
    <3>1. claimed' /\ (running' <=> claimed /\ running)
      BY <2>1 DEF NotifyFirmwareDisplayDone
    <3>2. /\ UNCHANGED <<requested, plan, committed, takeoverActive, takeoverFailed,
                         nativeModeFailed, saved, submitted, template, restoreFailed,
                         list, pending, active, timing, clocks>>
          /\ step = "Claim" /\ step' = "Fence" /\ UNCHANGED <<call, planes, next, frame, layerVars>>
      BY <1>14, <2>1 DEF PresentClaim, NotifyFirmwareDisplayDone
    <3> QED BY <3>1, <3>2
  <2>2. CASE TakeoverFails /\ UNCHANGED hardwareVars /\ Leaves("Legacy")
    BY <1>14, <2>2 DEF PresentClaim, TakeoverFails
  <2> QED BY <1>14, <2>1, <2>2 DEF PresentClaim
<1>15. CASE PresentFenceTimeout
  BY <1>15 DEF PresentFenceTimeout, TakeoverFails
<1>16. CASE PresentBeginWrite
  BY <1>16 DEF PresentBeginWrite, BeginWrite
<1>17. CASE PresentWriteFails
  BY <1>17 DEF PresentWriteFails, TakeoverFails
<1>18. CASE PresentEndWrite
  BY <1>18 DEF PresentEndWrite, EndWrite
<1>19. CASE PresentRestart
  <2>1. CASE RestartForArm
    BY <1>19, <2>1 DEF PresentRestart, RestartForArm, RestartWorks, ClocksFor, NativePlan
  <2>2. CASE RestartFallback
    BY <1>19, <2>2 DEF PresentRestart, RestartFallback, FallbackAllowed, RestartWorks, ClocksFor
  <2> QED BY <1>19, <2>1, <2>2 DEF PresentRestart
<1>20. CASE PresentRestartFails
  BY <1>20 DEF PresentRestartFails, RestartRefused, RestartFails, ClocksFor
<1>21. CASE PresentNotActive
  BY <1>21 DEF PresentNotActive, TakeoverFails
<1>22. CASE PresentDone
  BY <1>22 DEF PresentDone, Commit
<1>23. CASE Restore
  BY <1>23 DEF Restore, RestoreList
<1>24. CASE RestoreStart
  BY <1>24 DEF RestoreStart, RestoreRestart, RestartWorks, ClocksFor
<1>25. CASE RestoreEnd
  BY <1>25 DEF RestoreEnd, RestoreDone
<1>26. CASE RestoreBroken
  BY <1>26 DEF RestoreBroken, RestoreGivesUp
<1>27. CASE Legacy
  BY <1>27 DEF Legacy
<1>28. CASE Free
  BY <1>28 DEF Free, StagingKept, StagingReplaced
<1>29. ASSUME NEW c \in Calls, Core1Call(c) PROVE RenderFenced'
  BY <1>29 DEF Core1Call, Begin
<1>30. CASE Return
  BY <1>30 DEF Return
<1>31. CASE Hvs
  BY <1>31 DEF Hvs, VBlank
<1>32. CASE UNCHANGED vars
  BY <1>32 DEF vars
<1> QED BY <1>1, <1>2, <1>3, <1>4, <1>5, <1>6, <1>7, <1>8, <1>9, <1>10, <1>11, <1>12,
  <1>13, <1>14, <1>15, <1>16, <1>17, <1>18, <1>19, <1>20, <1>21, <1>22, <1>23, <1>24, <1>25,
  <1>26, <1>27, <1>28, <1>29, <1>30, <1>31, <1>32
  DEF Next, Run, LayerStep, Enter, Render, PresentPlanes, RestoreFirmwareScanout

LEMMA SubmittedBuffersStep ==
  TypeOK /\ TakeoverSteps /\ ScanState /\ ListWanted /\ PlanesShape /\ SubmittedBuffers /\ [Next]_vars => SubmittedBuffers'
<1> SUFFICES ASSUME TypeOK, TakeoverSteps, ScanState, ListWanted, PlanesShape,
  SubmittedBuffers, [Next]_vars PROVE SubmittedBuffers'
  OBVIOUS
<1> USE DEF callVars, kmsVars, driverVars, hardwareVars, layerVars, GoTo, Leaves, Failed,
  Back, TypeOK, KmsTypeOK, LayersTypeOK, TakeoverSteps, PresentSteps, RestoreSteps,
  TakeoverReady, ListSlots, ScanState, SubmittedBuffers, SlotIndex
<1>1. CASE EnterPresent
  BY <1>1 DEF EnterPresent
<1>2. CASE EnterPresentTimeout
  BY <1>2 DEF EnterPresentTimeout, TakeoverFails
<1>3. CASE EnterPreview
  BY <1>3 DEF EnterPreview
<1>4. CASE EnterSetting
  BY <1>4 DEF EnterSetting
<1>5. CASE EnterShow
  BY <1>5 DEF EnterShow, StagingKept, StagingReplaced
<1>6. CASE EnterHide
  BY <1>6 DEF EnterHide, Hiding, AfterHide
<1>7. CASE RenderNothing
  BY <1>7 DEF RenderNothing
<1>8. CASE RenderFails
  BY <1>8 DEF RenderFails
<1>9. ASSUME NEW copied \in BOOLEAN, RenderDone(copied) PROVE SubmittedBuffers'
  BY <1>9 DEF RenderDone, NextSequence
<1>10. CASE TryRefused
  BY <1>10 DEF TryRefused
<1>11. CASE TryNoOverlay
  BY <1>11 DEF TryNoOverlay
<1>12. CASE TryPi4KmsPresent
  BY <1>12 DEF TryPi4KmsPresent, FillTemplate
<1>13. CASE PresentCapture
  <2>1. CASE Captured /\ GoTo("Claim")
    BY <1>13, <2>1 DEF PresentCapture, Captured
  <2>2. CASE CaptureDeferred /\ Leaves("Legacy")
    BY <1>13, <2>2 DEF PresentCapture, CaptureDeferred
  <2> QED BY <1>13, <2>1, <2>2 DEF PresentCapture
<1>14. CASE PresentClaim
  <2>1. CASE NotifyFirmwareDisplayDone /\ GoTo("Fence")
    <3>1. claimed' /\ (running' <=> claimed /\ running)
      BY <2>1 DEF NotifyFirmwareDisplayDone
    <3>2. /\ UNCHANGED <<requested, plan, committed, takeoverActive, takeoverFailed,
                         nativeModeFailed, saved, submitted, template, restoreFailed,
                         list, pending, active, timing, clocks>>
          /\ step = "Claim" /\ step' = "Fence" /\ UNCHANGED <<call, planes, next, frame, layerVars>>
      BY <1>14, <2>1 DEF PresentClaim, NotifyFirmwareDisplayDone
    <3> QED BY <3>1, <3>2
  <2>2. CASE TakeoverFails /\ UNCHANGED hardwareVars /\ Leaves("Legacy")
    BY <1>14, <2>2 DEF PresentClaim, TakeoverFails
  <2> QED BY <1>14, <2>1, <2>2 DEF PresentClaim
<1>15. CASE PresentFenceTimeout
  BY <1>15 DEF PresentFenceTimeout, TakeoverFails
<1>16. CASE PresentBeginWrite
  BY <1>16 DEF PresentBeginWrite, BeginWrite
<1>17. CASE PresentWriteFails
  BY <1>17 DEF PresentWriteFails, TakeoverFails
<1>18. CASE PresentEndWrite
  BY <1>18 DEF PresentEndWrite, EndWrite
<1>19. CASE PresentRestart
  <2>1. CASE RestartForArm
    BY <1>19, <2>1 DEF PresentRestart, RestartForArm, RestartWorks, ClocksFor, NativePlan
  <2>2. CASE RestartFallback
    BY <1>19, <2>2 DEF PresentRestart, RestartFallback, FallbackAllowed, RestartWorks, ClocksFor
  <2> QED BY <1>19, <2>1, <2>2 DEF PresentRestart
<1>20. CASE PresentRestartFails
  BY <1>20 DEF PresentRestartFails, RestartRefused, RestartFails, ClocksFor
<1>21. CASE PresentNotActive
  BY <1>21 DEF PresentNotActive, TakeoverFails
<1>22. CASE PresentDone
  <2>1. /\ list' = list /\ submitted' = SlotIndex /\ list[SlotIndex] = planes
        /\ front' = (IF WithOverlay THEN BackOverlay ELSE front)
        /\ (frontValid' <=> frontValid \/ WithOverlay)
    BY <1>22 DEF PresentDone, Commit, ListWanted
  <2>2. /\ next \in Slots /\ scanout[next] \in Slots
        /\ planes.bufs = {Target(scanout[next])}
                       \cup (IF WithOverlay THEN {OverlayBuffer(BackOverlay)} ELSE {})
    BY <1>22 DEF PresentDone, PlanesShape
  <2>3. \A n : Target(n) \in {"v0", "v1"} /\ OverlayBuffer(n) \in {"ui0", "ui1"}
    BY DEF Target, OverlayBuffer
  <2> HIDE DEF WithOverlay, BackOverlay, SlotIndex
  <2>4. ~("v0" \in planes.bufs /\ "v1" \in planes.bufs)
    BY <2>2, <2>3
  <2>5. WithOverlay => planes.bufs \subseteq {"v0", "v1", OverlayBuffer(BackOverlay)}
    BY <2>2, <2>3
  <2>6. ~WithOverlay => planes.bufs \subseteq {"v0", "v1"}
    BY <2>2, <2>3
  <2>7. list'[submitted'] = planes
    BY <2>1
  <2>8. frontValid' => planes.bufs \subseteq {"v0", "v1", OverlayBuffer(front')}
    BY <2>1, <2>5, <2>6
  <2> QED BY <2>4, <2>7, <2>8
<1>23. CASE Restore
  BY <1>23 DEF Restore, RestoreList
<1>24. CASE RestoreStart
  BY <1>24 DEF RestoreStart, RestoreRestart, RestartWorks, ClocksFor
<1>25. CASE RestoreEnd
  BY <1>25 DEF RestoreEnd, RestoreDone
<1>26. CASE RestoreBroken
  BY <1>26 DEF RestoreBroken, RestoreGivesUp
<1>27. CASE Legacy
  BY <1>27 DEF Legacy
<1>28. CASE Free
  BY <1>28 DEF Free, StagingKept, StagingReplaced
<1>29. ASSUME NEW c \in Calls, Core1Call(c) PROVE SubmittedBuffers'
  BY <1>29 DEF Core1Call, Begin
<1>30. CASE Return
  BY <1>30 DEF Return
<1>31. CASE Hvs
  BY <1>31 DEF Hvs, VBlank, NoList
<1>32. CASE UNCHANGED vars
  BY <1>32 DEF vars
<1> QED BY <1>1, <1>2, <1>3, <1>4, <1>5, <1>6, <1>7, <1>8, <1>9, <1>10, <1>11, <1>12,
  <1>13, <1>14, <1>15, <1>16, <1>17, <1>18, <1>19, <1>20, <1>21, <1>22, <1>23, <1>24, <1>25,
  <1>26, <1>27, <1>28, <1>29, <1>30, <1>31, <1>32
  DEF Next, Run, LayerStep, Enter, Render, PresentPlanes, RestoreFirmwareScanout

LEMMA FrameStep ==
  TypeOK /\ TakeoverSteps /\ ScanState /\ FrameOnItsWay /\ [Next]_vars => FrameOnItsWay'
<1> SUFFICES ASSUME TypeOK, TakeoverSteps, ScanState, FrameOnItsWay, [Next]_vars PROVE
  FrameOnItsWay'
  OBVIOUS
<1> USE DEF callVars, kmsVars, driverVars, hardwareVars, layerVars, GoTo, Leaves, Failed,
  Back, TypeOK, KmsTypeOK, LayersTypeOK, TakeoverSteps, PresentSteps, RestoreSteps,
  TakeoverReady, ListSlots, FrameOnItsWay, NothingFailed, Eligible
<1>1. CASE EnterPresent
  BY <1>1 DEF EnterPresent
<1>2. CASE EnterPresentTimeout
  BY <1>2 DEF EnterPresentTimeout, TakeoverFails
<1>3. CASE EnterPreview
  BY <1>3 DEF EnterPreview
<1>4. CASE EnterSetting
  BY <1>4 DEF EnterSetting
<1>5. CASE EnterShow
  BY <1>5 DEF EnterShow, StagingKept, StagingReplaced
<1>6. CASE EnterHide
  BY <1>6 DEF EnterHide, Hiding, AfterHide
<1>7. CASE RenderNothing
  BY <1>7 DEF RenderNothing, Renders, CanRender
<1>8. CASE RenderFails
  BY <1>8 DEF RenderFails
<1>9. ASSUME NEW copied \in BOOLEAN, RenderDone(copied) PROVE FrameOnItsWay'
  BY <1>9 DEF RenderDone, NextSequence, Renders, CanRender, RenderSlot, Slots, NoTarget
<1>10. CASE TryRefused
  BY <1>10 DEF TryRefused, Ready, Slots, NoTarget
<1>11. CASE TryNoOverlay
  BY <1>11 DEF TryNoOverlay
<1>12. CASE TryPi4KmsPresent
  <2> SUFFICES ASSUME call.op = "Present", call.sync, "VIC" \in call.ready, crt,
    NothingFailed, Eligible
               PROVE  frame = "rendered" /\ Target(1 - seq) \in planes'.bufs
    BY <1>12 DEF TryPi4KmsPresent
  <2>1. step = "Try" /\ frame = "rendered" /\ scanout[1 - rnum] = 1 - seq
    BY <1>12 DEF TryPi4KmsPresent
  <2>2. NextResource = 1 - rnum
    BY <2>1 DEF NextResource, Ready, Slots, NoTarget
  <2>3. Target(scanout[NextResource]) \in planes'.bufs
    BY <1>12 DEF TryPi4KmsPresent
  <2> QED BY <2>1, <2>2, <2>3
<1>13. CASE PresentCapture
  <2>1. CASE Captured /\ GoTo("Claim")
    BY <1>13, <2>1 DEF PresentCapture, Captured
  <2>2. CASE CaptureDeferred /\ Leaves("Legacy")
    BY <1>13, <2>2 DEF PresentCapture, CaptureDeferred
  <2> QED BY <1>13, <2>1, <2>2 DEF PresentCapture
<1>14. CASE PresentClaim
  <2>1. CASE NotifyFirmwareDisplayDone /\ GoTo("Fence")
    <3>1. claimed' /\ (running' <=> claimed /\ running)
      BY <2>1 DEF NotifyFirmwareDisplayDone
    <3>2. /\ UNCHANGED <<requested, plan, committed, takeoverActive, takeoverFailed,
                         nativeModeFailed, saved, submitted, template, restoreFailed,
                         list, pending, active, timing, clocks>>
          /\ step = "Claim" /\ step' = "Fence" /\ UNCHANGED <<call, planes, next, frame, layerVars>>
      BY <1>14, <2>1 DEF PresentClaim, NotifyFirmwareDisplayDone
    <3> QED BY <3>1, <3>2
  <2>2. CASE TakeoverFails /\ UNCHANGED hardwareVars /\ Leaves("Legacy")
    BY <1>14, <2>2 DEF PresentClaim, TakeoverFails
  <2> QED BY <1>14, <2>1, <2>2 DEF PresentClaim
<1>15. CASE PresentFenceTimeout
  BY <1>15 DEF PresentFenceTimeout, TakeoverFails
<1>16. CASE PresentBeginWrite
  BY <1>16 DEF PresentBeginWrite, BeginWrite
<1>17. CASE PresentWriteFails
  BY <1>17 DEF PresentWriteFails, TakeoverFails
<1>18. CASE PresentEndWrite
  BY <1>18 DEF PresentEndWrite, EndWrite
<1>19. CASE PresentRestart
  <2>1. CASE RestartForArm
    BY <1>19, <2>1 DEF PresentRestart, RestartForArm, RestartWorks, ClocksFor, NativePlan
  <2>2. CASE RestartFallback
    BY <1>19, <2>2 DEF PresentRestart, RestartFallback, FallbackAllowed, RestartWorks, ClocksFor
  <2> QED BY <1>19, <2>1, <2>2 DEF PresentRestart
<1>20. CASE PresentRestartFails
  BY <1>20 DEF PresentRestartFails, RestartRefused, RestartFails, ClocksFor
<1>21. CASE PresentNotActive
  BY <1>21 DEF PresentNotActive, TakeoverFails
<1>22. CASE PresentDone
  BY <1>22 DEF PresentDone, Commit
<1>23. CASE Restore
  BY <1>23 DEF Restore, RestoreList
<1>24. CASE RestoreStart
  BY <1>24 DEF RestoreStart, RestoreRestart, RestartWorks, ClocksFor
<1>25. CASE RestoreEnd
  BY <1>25 DEF RestoreEnd, RestoreDone
<1>26. CASE RestoreBroken
  BY <1>26 DEF RestoreBroken, RestoreGivesUp
<1>27. CASE Legacy
  BY <1>27 DEF Legacy
<1>28. CASE Free
  BY <1>28 DEF Free, StagingKept, StagingReplaced
<1>29. ASSUME NEW c \in Calls, Core1Call(c) PROVE FrameOnItsWay'
  BY <1>29 DEF Core1Call, Begin
<1>30. CASE Return
  BY <1>30 DEF Return
<1>31. CASE Hvs
  BY <1>31 DEF Hvs, VBlank
<1>32. CASE UNCHANGED vars
  BY <1>32 DEF vars
<1> QED BY <1>1, <1>2, <1>3, <1>4, <1>5, <1>6, <1>7, <1>8, <1>9, <1>10, <1>11, <1>12,
  <1>13, <1>14, <1>15, <1>16, <1>17, <1>18, <1>19, <1>20, <1>21, <1>22, <1>23, <1>24, <1>25,
  <1>26, <1>27, <1>28, <1>29, <1>30, <1>31, <1>32
  DEF Next, Run, LayerStep, Enter, Render, PresentPlanes, RestoreFirmwareScanout

---------------------------------------------------------------------------
(* The theorems.                                                            *)

\* A call runs on one core from its beginning to its end.
CallRuns == core \in {"none", "core0", "core1"} /\ (core = "none" <=> step = "Idle")

LEMMA LayerSteps == LayerStep => step # "Idle" /\ step' # "Idle" /\ (committed => committed')
<1> USE DEF callVars, kmsVars, driverVars, hardwareVars, layerVars, GoTo, Leaves, Failed,
  Back, AfterHide
<1> SUFFICES ASSUME LayerStep PROVE step # "Idle" /\ step' # "Idle" /\ (committed => committed')
  OBVIOUS
<1>1. CASE EnterPresent
  BY <1>1 DEF EnterPresent
<1>2. CASE EnterPresentTimeout
  BY <1>2 DEF EnterPresentTimeout, TakeoverFails
<1>3. CASE EnterPreview
  BY <1>3 DEF EnterPreview
<1>4. CASE EnterSetting
  BY <1>4 DEF EnterSetting
<1>5. CASE EnterShow
  BY <1>5 DEF EnterShow, StagingKept, StagingReplaced
<1>6. CASE EnterHide
  BY <1>6 DEF EnterHide, Hiding, AfterHide
<1>7. CASE RenderNothing
  BY <1>7 DEF RenderNothing
<1>8. CASE RenderFails
  BY <1>8 DEF RenderFails
<1>9. CASE \E copied \in BOOLEAN : RenderDone(copied)
  BY <1>9 DEF RenderDone
<1>10. CASE TryRefused
  BY <1>10 DEF TryRefused
<1>11. CASE TryNoOverlay
  BY <1>11 DEF TryNoOverlay
<1>12. CASE TryPi4KmsPresent
  BY <1>12 DEF TryPi4KmsPresent, FillTemplate
<1>13. CASE PresentCapture
  BY <1>13 DEF PresentCapture, Captured, CaptureDeferred
<1>14. CASE PresentClaim
  BY <1>14 DEF PresentClaim, NotifyFirmwareDisplayDone, TakeoverFails
<1>15. CASE PresentFenceTimeout
  BY <1>15 DEF PresentFenceTimeout, TakeoverFails
<1>16. CASE PresentBeginWrite
  BY <1>16 DEF PresentBeginWrite, BeginWrite
<1>17. CASE PresentWriteFails
  BY <1>17 DEF PresentWriteFails, TakeoverFails
<1>18. CASE PresentEndWrite
  BY <1>18 DEF PresentEndWrite, EndWrite
<1>19. CASE PresentRestart
  BY <1>19 DEF PresentRestart, RestartForArm, RestartFallback, RestartWorks, ClocksFor
<1>20. CASE PresentRestartFails
  BY <1>20 DEF PresentRestartFails, RestartRefused, RestartFails, ClocksFor
<1>21. CASE PresentNotActive
  BY <1>21 DEF PresentNotActive, TakeoverFails
<1>22. CASE PresentDone
  BY <1>22 DEF PresentDone, Commit
<1>23. CASE Restore
  BY <1>23 DEF Restore, RestoreList
<1>24. CASE RestoreStart
  BY <1>24 DEF RestoreStart, RestoreRestart, RestartWorks, ClocksFor
<1>25. CASE RestoreEnd
  BY <1>25 DEF RestoreEnd, RestoreDone
<1>26. CASE RestoreBroken
  BY <1>26 DEF RestoreBroken, RestoreGivesUp
<1>27. CASE Legacy
  BY <1>27 DEF Legacy
<1>28. CASE Free
  BY <1>28 DEF Free, StagingKept, StagingReplaced
<1> QED BY <1>1, <1>2, <1>3, <1>4, <1>5, <1>6, <1>7, <1>8, <1>9, <1>10, <1>11, <1>12,
  <1>13, <1>14, <1>15, <1>16, <1>17, <1>18, <1>19, <1>20, <1>21, <1>22, <1>23, <1>24, <1>25,
  <1>26, <1>27, <1>28
  DEF LayerStep, Enter, Render, PresentPlanes, RestoreFirmwareScanout

LEMMA CallRunsStep == CallRuns /\ [Next]_vars => CallRuns'
<1> SUFFICES ASSUME CallRuns, [Next]_vars PROVE CallRuns'
  OBVIOUS
<1>1. ASSUME NEW c \in Calls, Core1Call(c) PROVE CallRuns'
  BY <1>1 DEF Core1Call, Begin, CallRuns
<1>2. CASE Run
  BY <1>2, LayerSteps DEF Run, CallRuns
<1>3. CASE Return
  BY <1>3 DEF Return, CallRuns
<1>4. CASE Hvs
  BY <1>4 DEF Hvs, CallRuns, callVars
<1>5. CASE UNCHANGED vars
  BY <1>5 DEF vars, CallRuns, callVars
<1> QED BY <1>1, <1>2, <1>3, <1>4, <1>5 DEF Next

DisplayInv ==
  /\ TypeOK /\ TakeoverSteps /\ ScanState /\ ClockState /\ WholeLists /\ ListWanted
  /\ PlanesShape /\ SubmittedBuffers /\ RenderFenced /\ FrameOnItsWay /\ CallRuns

LEMMA DisplayInitInv == Init => DisplayInv
<1> SUFFICES ASSUME Init PROVE DisplayInv
  OBVIOUS
<1> USE DEF Init, KmsInit, LayersInit
<1>1. KmsFlags
  BY DEF KmsFlags
<1>2. KmsData
  <2>1. NoList \in Planes \cup {NoList, Torn} /\ NoLayout \in Layouts \cup {NoLayout}
    OBVIOUS
  <2>2. plan \in Plans \cup {"none"}
    OBVIOUS
  <2> QED BY <2>1, <2>2 DEF KmsData, ListSlots, FirmwareList, Timings, ClockRates
<1>3. LayerFlags /\ LayerData /\ CallData
  <2>1. LayerFlags
    BY DEF LayerFlags
  <2>2. LayerData
    BY DEF LayerData, Slots, NoTarget, Steps
  <2>3. CallData
    BY DEF CallData
  <2> QED BY <2>1, <2>2, <2>3
<1>4. TypeOK
  BY <1>1, <1>2, <1>3, TypesSplit
<1>5. TakeoverSteps
  BY DEF TakeoverSteps, PresentSteps, RestoreSteps
<1>6. ScanState /\ ClockState /\ WholeLists
  BY DEF ScanState, ClockState, WholeLists, RestoreSteps, ListSlots, FirmwareList
<1>7. ListWanted /\ PlanesShape /\ SubmittedBuffers /\ RenderFenced /\ CallRuns
  BY DEF ListWanted, PlanesShape, SubmittedBuffers, RenderFenced, PresentSteps, CallRuns
<1>8. FrameOnItsWay
  BY DEF FrameOnItsWay, PresentSteps
<1> QED BY <1>4, <1>5, <1>6, <1>7, <1>8 DEF DisplayInv

LEMMA DisplayInvStep == DisplayInv /\ [Next]_vars => DisplayInv'
<1> SUFFICES ASSUME DisplayInv, [Next]_vars PROVE DisplayInv'
  OBVIOUS
<1> USE DEF DisplayInv
<1>1. KmsFlags' /\ KmsData' /\ LayerFlags' /\ LayerData' /\ CallData'
  BY TypesSplit, KmsFlagsStep, KmsDataStep, LayerFlagsStep, LayerDataStep, CallDataStep
<1>2. CallRuns'
  BY CallRunsStep
<1>3. core' \in {"none", "core0", "core1"}
  BY <1>2 DEF CallRuns
<1>4. TypeOK'
  BY <1>1, <1>3 DEF TypeOK, KmsTypeOK, LayersTypeOK, KmsFlags, KmsData, LayerFlags,
    LayerData, CallData
<1>5. TakeoverSteps' /\ ScanState' /\ ClockState' /\ WholeLists' /\ ListWanted'
  BY TakeoverStepsStep, ScanStateStep, ClockStateStep, WholeListsStep, ListWantedStep
<1>6. PlanesShape' /\ SubmittedBuffers' /\ RenderFenced' /\ FrameOnItsWay'
  BY PlanesShapeStep, SubmittedBuffersStep, RenderFencedStep, FrameStep
<1> QED BY <1>2, <1>4, <1>5, <1>6

LEMMA DisplayInvHolds == Spec => []DisplayInv
BY DisplayInitInv, DisplayInvStep, PTL DEF Spec

(***************************************************************************)
(* PresentPlanes: the HVS is never given a list that is being written, and *)
(* what it is given is the frame that was asked for.                       *)
(***************************************************************************)
THEOREM ListsAreSound == Spec => []ListsSound
<1>1. DisplayInv => ListsSound
  <2> SUFFICES ASSUME DisplayInv PROVE ListsSound
    OBVIOUS
  <2>1. ScannedListWhole
    BY DEF DisplayInv, WholeLists, ScannedListWhole
  <2>2. ListAsRequested
    BY DEF DisplayInv, ListWanted, ListAsRequested
  <2> QED BY <2>1, <2>2 DEF DisplayInv, ListsSound
<1> QED BY <1>1, DisplayInvHolds, PTL

(***************************************************************************)
(* The takeover can be undone until the commit and is undone when it fails *)
(* (RestoreFirmwareScanout); no list is shown with the timing of a mode of *)
(* another size; and none with the clocks of another mode, except after a  *)
(* native mode of the firmware's size has been given up: wherever          *)
(* PresentPlanes and the restart fail.                                     *)
(***************************************************************************)
THEOREM TakeoverIsSound == Spec => []TakeoverSound
<1>1. OnScreen => /\ ~restoreFailed /\ step \in {"Idle", "Verify"}
               /\ (step = "Verify" => active = pending)
  BY DEF OnScreen, Between
<1>2. DisplayInv => RecoverableUntilCommit /\ FirmwarePictureBack
  <2> SUFFICES ASSUME DisplayInv PROVE RecoverableUntilCommit /\ FirmwarePictureBack
    OBVIOUS
  <2> USE DEF DisplayInv, TakeoverSteps, ScanState, PresentSteps, RestoreSteps,
    FirmwareList, ListSlots, Between
  <2>1. RecoverableUntilCommit
    BY DEF RecoverableUntilCommit, SlotIndex, TypeOK, KmsTypeOK
  <2>2. FirmwarePictureBack
    BY DEF FirmwarePictureBack
  <2> QED BY <2>1, <2>2
<1>3. DisplayInv /\ OnScreen => Fits(active, timing)
  <2> SUFFICES ASSUME DisplayInv, OnScreen PROVE Fits(active, timing)
    OBVIOUS
  <2> USE <1>1
  <2> USE DEF DisplayInv, TakeoverSteps, ScanState, Fits
  <2>1. CASE plan # "changed"
    BY <2>1
  <2>2. CASE plan = "changed" /\ step = "Idle"
    BY <2>2 DEF RestoreSteps
  <2>3. CASE plan = "changed" /\ step = "Verify"
    <3>1. ~committed
      BY <2>3
    <3>2. timing = "native" /\ active = 0
      BY <2>3, <3>1
    <3> QED BY <2>3, <3>2 DEF FirmwareList
  <2> QED BY <2>1, <2>2, <2>3
<1>4. DisplayInv /\ OnScreen => clocks = timing \/ SameSizeGivenUp
  <2> SUFFICES ASSUME DisplayInv, OnScreen PROVE clocks = timing \/ SameSizeGivenUp
    OBVIOUS
  <2> USE <1>1
  <2> USE DEF DisplayInv, ClockState, SameSizeGivenUp
  <2>1. CASE committed
    BY <2>1
  <2>2. CASE ~committed /\ step = "Idle"
    BY <2>2 DEF ScanState, RestoreSteps
  <2>3. CASE ~committed /\ step = "Verify"
    BY <2>3
  <2> QED BY <2>1, <2>2, <2>3
<1>5. DisplayInv => TakeoverSound
  BY <1>2, <1>3, <1>4 DEF TakeoverSound, TakeoverRecoverable, TimingFitsList
<1> QED BY <1>5, DisplayInvHolds, PTL

(***************************************************************************)
(* SynchronizePreviousPresent: the V3D target and the overlay buffer that  *)
(* a synchronised present fills are in no list that is or will be scanned. *)
(***************************************************************************)
THEOREM FencedBuffersAreFree == Spec => []FencedBuffersFree
<1>1. DisplayInv => FencedBuffersFree
  <2> SUFFICES ASSUME DisplayInv, step = "Render", call.op = "Present", call.sync, committed,
                      Target(1 - seq) \in list[submitted].bufs, NEW s \in {active, pending}
               PROVE  /\ "VIC" \in call.ready => Target(seq) \notin list[s].bufs
                      /\ WithOverlay /\ frontValid => OverlayBuffer(BackOverlay) \notin list[s].bufs
    BY DEF FencedBuffersFree
  <2>1. s = submitted
    BY DEF DisplayInv, RenderFenced, ScanState
  <2>2. seq \in 0..1 /\ front \in 0..1
    BY DEF DisplayInv, TypeOK, LayersTypeOK
  <2>3. Target(seq) \notin list[submitted].bufs
    BY <2>2 DEF DisplayInv, SubmittedBuffers, Target
  <2>4. WithOverlay /\ frontValid => OverlayBuffer(BackOverlay) \notin list[submitted].bufs
    <3> SUFFICES ASSUME frontValid PROVE OverlayBuffer(BackOverlay) \notin list[submitted].bufs
      OBVIOUS
    <3>1. list[submitted].bufs \subseteq {"v0", "v1", OverlayBuffer(front)}
      BY DEF DisplayInv, SubmittedBuffers
    <3>2. BackOverlay = 1 - front
      BY DEF BackOverlay
    <3> QED BY <2>2, <3>1, <3>2 DEF OverlayBuffer
  <2> QED BY <2>1, <2>3, <2>4
<1> QED BY <1>1, DisplayInvHolds, PTL

(***************************************************************************)
(* PresentFrameBufferLayers: with the CRT effects on, and unless something *)
(* has failed, the frame the emulator presents is on its way when the call *)
(* returns.                                                                *)
(***************************************************************************)
THEOREM CrtFramesArePreserved == Spec => []CrtFramePreserved
<1>1. DisplayInv => CrtFramePreserved
  BY DEF DisplayInv, FrameOnItsWay, CrtFramePreserved, PresentReturns
<1> QED BY <1>1, DisplayInvHolds, PTL

(***************************************************************************)
(* ShouldDispatchPi4LegacyDisplayCall: seen from outside, the display code *)
(* takes one call at a time on the core that owns the layers, which goes   *)
(* from core 0 to core 1 at most once.                                     *)
(***************************************************************************)
THEOREM DisplayHasOneOwner == Spec => OwnerSpec
<1>1. Init => Owner!OwnerInit
  BY DEF Init, KmsInit, LayersInit, Owner!OwnerInit
<1>2. CallRuns /\ [Next]_vars => [Owner!OwnerNext]_(Owner!ownerVars)
  <2> SUFFICES ASSUME CallRuns, [Next]_vars PROVE [Owner!OwnerNext]_(Owner!ownerVars)
    OBVIOUS
  <2>1. ASSUME NEW c \in Calls, Core1Call(c) PROVE Owner!Call
    <3>1. step = "Idle" /\ step' = "Enter" /\ UNCHANGED <<driverVars, layerVars, committed>>
      BY <2>1 DEF Core1Call, Begin, kmsVars, driverVars
    <3>2. core' = IF ~committed THEN "core0" ELSE "core1"
      BY <2>1 DEF Core1Call, ShouldDispatch
    <3> QED BY <3>1, <3>2 DEF Owner!Call
  <2>2. CASE Run
    BY <2>2, LayerSteps DEF Run, CallRuns, Owner!OwnerNext, Owner!Work
  <2>3. CASE Return
    <3>1. step = "Return" /\ step' = "Idle" /\ core' = "none" /\ UNCHANGED <<driverVars, layerVars, committed>>
      BY <2>3 DEF Return, kmsVars, driverVars
    <3> QED BY <3>1 DEF CallRuns, Owner!OwnerNext, Owner!Stop
  <2>4. CASE Hvs
    BY <2>4 DEF Hvs, VBlank, callVars, driverVars, Owner!ownerVars
  <2>5. CASE UNCHANGED vars
    BY <2>5 DEF vars, kmsVars, callVars, driverVars, Owner!ownerVars
  <2> QED BY <2>1, <2>2, <2>3, <2>4, <2>5 DEF Next, Owner!OwnerNext
<1>3. Init => CallRuns
  BY DisplayInitInv DEF DisplayInv
<1> QED BY <1>1, <1>2, <1>3, CallRunsStep, PTL DEF Spec, OwnerSpec, Owner!OwnerSpec

---------------------------------------------------------------------------
(* NativeLayers.                                                            *)

Pictures == [Screen -> SUBSET (NativeLayerSet \cup {"stale", "v3d"})]
Snapshots == [valid : BOOLEAN, same : SUBSET NativeLayerSet, showing : SUBSET NativeLayerSet,
              at : [NativeLayerSet -> SUBSET Screen]]
Memories == [kind : {"layer", "v3d", "kms"}, layer : NativeLayerSet, index : 0..2]

CopyTypes ==
  /\ dirty_ \subseteq NativeLayerSet
  /\ hwscale \in [NativeLayerSet -> [Indexes -> {"invalid", "stale", "fresh"}]]
  /\ hwFront \in [OverlayLayers -> 0..2]

ShownTypes ==
  /\ board \in {"Pi4", "Pi5", "Firmware"} /\ showing_ \subseteq NativeLayerSet
  /\ dst \in [NativeLayerSet -> SUBSET Screen]
  /\ kmsFront \in Indexes
  /\ path \in {"Idle", "Fence", "V3d", "Direct", "Software"}
  /\ outcome \in {"none", "shown"}

SoftTypes ==
  /\ composed \in Pictures
  /\ kmsBuffer \in [Indexes -> Pictures] /\ kmsPending \in [Indexes -> SUBSET Screen]
  /\ snapshot \in Snapshots

\* An overlay that is not dirty has a buffer, and it is up to date; the copies
\* of the base layer are up to date or not valid.
OverlayCopies ==
  \A l \in OverlayLayers :
    l \notin dirty_ => hwFront[l] \in Indexes /\ hwscale[l][hwFront[l]] = "fresh"
BaseCopies == \A i \in Indexes : hwscale[BaseLayer][i] # "stale"

CopiesInv == CopyTypes /\ OverlayCopies /\ BaseCopies

LEMMA LayerNames ==
  /\ BaseLayer \in NativeLayerSet /\ BaseLayer \notin OverlayLayers
  /\ \A l \in OverlayLayers : l \in NativeLayerSet /\ l # BaseLayer
  /\ \A l \in NativeLayerSet : l = BaseLayer \/ l \in OverlayLayers
  /\ "stale" \notin NativeLayerSet /\ "v3d" \notin NativeLayerSet
BY NativeAssumption DEF NativeLayerSet

LEMMA SelectedInIndexes ==
  ASSUME CopyTypes, kmsFront \in Indexes, NEW l \in NativeLayerSet
  PROVE  SelectedBuffer(l) \in Indexes
BY DEF CopyTypes, Indexes, NoIndex, SelectedBuffer, kms_back_buffer_index

\* MarkDirty keeps what is known of the copies.
LEMMA MarkDirtyCopies ==
  ASSUME CopiesInv, NEW ls \in SUBSET NativeLayerSet, MarkDirty(ls), UNCHANGED hwFront
  PROVE  CopiesInv'
<1> USE LayerNames
<1>1. \A l \in NativeLayerSet, i \in Indexes :
        /\ hwscale'[l][i] \in {"invalid", "stale", "fresh"}
        /\ l \notin ls => hwscale'[l][i] = hwscale[l][i]
        /\ l = BaseLayer => hwscale'[l][i] \in {"invalid", hwscale[l][i]}
  BY DEF MarkDirty, CopiesInv, CopyTypes
<1>2. dirty_' = dirty_ \cup ls
  BY DEF MarkDirty
<1>3. hwscale' \in [NativeLayerSet -> [Indexes -> {"invalid", "stale", "fresh"}]]
  <2>1. \A l \in NativeLayerSet, i \in Indexes : hwscale'[l][i] \in {"invalid", "stale", "fresh"}
    BY <1>1
  <2> QED BY <2>1 DEF MarkDirty
<1>4. CopyTypes'
  BY <1>2, <1>3 DEF CopiesInv, CopyTypes
<1>5. OverlayCopies'
  BY <1>1, <1>2 DEF CopiesInv, OverlayCopies
<1>6. BaseCopies'
  BY <1>1 DEF CopiesInv, BaseCopies
<1> QED BY <1>4, <1>5, <1>6 DEF CopiesInv

\* So does building planes, and what is built is up to date.
LEMMA BuildPlanesCopies ==
  ASSUME CopiesInv, kmsFront \in Indexes, NEW ls \in SUBSET NativeLayerSet,
         NEW lost \in SUBSET NativeLayerSet, ls \cap lost = {}, BuildPlanes(ls, lost)
  PROVE  /\ CopiesInv'
         /\ \A l \in ls : hwscale'[l][SelectedBuffer(l)] = "fresh"
<1> USE LayerNames
<1>0. \A l \in NativeLayerSet : SelectedBuffer(l) \in Indexes
  BY SelectedInIndexes DEF CopiesInv
<1>1. \A l \in NativeLayerSet, i \in Indexes :
        /\ l \in ls /\ i = SelectedBuffer(l) /\ NeedsCopy(l) => hwscale'[l][i] = "fresh"
        /\ l \in lost /\ i = SelectedBuffer(l) /\ NeedsCopy(l) => hwscale'[l][i] = "invalid"
        /\ ~(l \in ls /\ i = SelectedBuffer(l) /\ NeedsCopy(l))
             /\ ~(l \in lost /\ i = SelectedBuffer(l) /\ NeedsCopy(l))
           => hwscale'[l][i] = hwscale[l][i]
  BY DEF BuildPlanes
<1>2. dirty_' = dirty_ \ ls /\ \A l \in OverlayLayers :
        hwFront'[l] = IF l \in ls THEN SelectedBuffer(l) ELSE hwFront[l]
  BY DEF BuildPlanes
<1>3. hwscale' \in [NativeLayerSet -> [Indexes -> {"invalid", "stale", "fresh"}]]
  <2>1. \A l \in NativeLayerSet, i \in Indexes : hwscale'[l][i] \in {"invalid", "stale", "fresh"}
    BY <1>1 DEF CopiesInv, CopyTypes
  <2> QED BY <2>1 DEF BuildPlanes
<1>4. CopyTypes'
  <2>1. hwFront' \in [OverlayLayers -> 0..2]
    BY <1>0, <1>2 DEF BuildPlanes, CopiesInv, CopyTypes, Indexes
  <2> QED BY <1>2, <1>3, <2>1 DEF CopiesInv, CopyTypes
\* An overlay whose buffer is not to be filled has one that is up to date.
<1>5. ASSUME NEW l \in NativeLayerSet, ~NeedsCopy(l)
      PROVE  hwscale[l][SelectedBuffer(l)] = "fresh"
  <2>1. l \notin dirty_ /\ hwscale[l][SelectedBuffer(l)] # "invalid"
    BY <1>5 DEF NeedsCopy
  <2>2. CASE l = BaseLayer
    BY <2>1, <2>2, <1>0 DEF CopiesInv, BaseCopies, CopyTypes
  <2>3. CASE l \in OverlayLayers
    <3>1. hwFront[l] \in Indexes /\ hwscale[l][hwFront[l]] = "fresh"
      BY <2>1, <2>3 DEF CopiesInv, OverlayCopies
    <3>2. SelectedBuffer(l) = hwFront[l]
      BY <3>1, <2>1, <2>3 DEF SelectedBuffer, Indexes, NoIndex
    <3> QED BY <3>1, <3>2
  <2> QED BY <2>2, <2>3
<1>6. \A l \in ls : hwscale'[l][SelectedBuffer(l)] = "fresh"
  BY <1>0, <1>1, <1>5
<1>7. OverlayCopies'
  <2> SUFFICES ASSUME NEW l \in OverlayLayers, l \notin dirty_'
               PROVE  hwFront'[l] \in Indexes /\ hwscale'[l][hwFront'[l]] = "fresh"
    BY DEF OverlayCopies
  <2>1. CASE l \in ls
    BY <2>1, <1>0, <1>2, <1>6
  <2>2. CASE l \notin ls
    <3>1. l \notin dirty_ /\ hwFront'[l] = hwFront[l]
      BY <2>2, <1>2
    <3>2. hwFront[l] \in Indexes /\ hwscale[l][hwFront[l]] = "fresh"
      BY <3>1 DEF CopiesInv, OverlayCopies
    <3>3. SelectedBuffer(l) = hwFront[l]
      BY <3>1, <3>2 DEF SelectedBuffer, Indexes, NoIndex
    <3>4. ~NeedsCopy(l)
      BY <3>1, <3>2, <3>3 DEF NeedsCopy
    <3>5. hwscale'[l][hwFront[l]] = hwscale[l][hwFront[l]]
      BY <3>2, <3>4, <1>1
    <3> QED BY <3>1, <3>2, <3>5
  <2> QED BY <2>1, <2>2
<1>8. BaseCopies'
  <2>1. \A i \in Indexes : hwscale'[BaseLayer][i] \in {"fresh", "invalid", hwscale[BaseLayer][i]}
    BY <1>1
  <2> QED BY <2>1 DEF CopiesInv, BaseCopies
<1> QED BY <1>4, <1>6, <1>7, <1>8 DEF CopiesInv

\* A failing path has built the planes of some layers and may have lost one.
LEMMA BuildFailsCopies ==
  ASSUME CopiesInv, kmsFront \in Indexes, NEW ls \in SUBSET NativeLayerSet, NEW after,
         BuildFails(ls, after)
  PROVE  CopiesInv'
<1>1. PICK l \in ls : \E before \in SUBSET (ls \ {l}), lost \in {{}, {l}} :
        BuildPlanes(before, lost)
  BY DEF BuildFails
<1>2. PICK before \in SUBSET (ls \ {l}), lost \in {{}, {l}} : BuildPlanes(before, lost)
  BY <1>1
<1>3. before \in SUBSET NativeLayerSet /\ lost \in SUBSET NativeLayerSet /\ before \cap lost = {}
  BY <1>2
<1> QED BY <1>2, <1>3, BuildPlanesCopies

\* What each step does to the copies.
LEMMA CopiesStep ==
  CopiesInv /\ ShownTypes /\ [NativeNext]_nativeVars => CopiesInv'
<1> SUFFICES ASSUME CopiesInv, ShownTypes, [NativeNext]_nativeVars PROVE CopiesInv'
  OBVIOUS
<1> USE LayerNames
<1>f. kmsFront \in Indexes /\ showing_ \in SUBSET NativeLayerSet
        /\ ShownOverlays \in SUBSET NativeLayerSet
  BY DEF ShownTypes, ShownOverlays
<1>u. CASE UNCHANGED copyVars
  BY <1>u DEF copyVars, CopiesInv, CopyTypes, OverlayCopies, BaseCopies
<1>m. ASSUME NEW ls \in SUBSET NativeLayerSet, MarkDirty(ls), Called PROVE CopiesInv'
  BY <1>m, MarkDirtyCopies DEF Called
<1>b. ASSUME NEW ls \in SUBSET NativeLayerSet, BuildPlanes(ls, {}) PROVE CopiesInv'
  BY <1>b, <1>f, BuildPlanesCopies
<1>1. CASE NativeCall
  <2>1. ASSUME NEW ls \in SUBSET NativeLayerSet, PresentReady(ls) PROVE CopiesInv'
    BY <2>1, <1>m DEF PresentReady
  <2>2. ASSUME NEW l \in NativeLayerSet, ShowLayer(l) \/ HideLayer(l) \/ ChangeLayer(l) PROVE CopiesInv'
    BY <2>2, <1>m DEF ShowLayer, HideLayer, ChangeLayer
  <2>3. ASSUME NEW l \in NativeLayerSet, FreeLayer(l) PROVE CopiesInv'
    BY <2>3, <1>u DEF FreeLayer, Called, copyVars
  <2>4. CASE CaptureRgb888
    BY <2>4, <1>u DEF CaptureRgb888
  <2> QED BY <1>1, <2>1, <2>2, <2>3, <2>4 DEF NativeCall
<1>2. CASE PresentFenced \/ PresentHeld \/ NativeVBlank
  BY <1>2, <1>u DEF PresentFenced, PresentHeld, NativeVBlank
<1>3. CASE TryV3dPostprocess
  <2>1. CASE V3dRefuses
    BY <2>1, <1>u DEF V3dRefuses
  <2>2. CASE V3dBuildFails
    BY <2>2, <1>f, BuildFailsCopies DEF V3dBuildFails
  <2>3. CASE V3dRenderFails \/ V3dPresent \/ V3dPresentFails \/ V3dCopyPresent \/ V3dCopyPresentFails
    BY <2>3, <1>b, <1>f DEF V3dRenderFails, V3dPresent, V3dPresentFails, V3dCopyPresent,
      V3dCopyPresentFails
  <2> QED BY <1>3, <2>1, <2>2, <2>3 DEF TryV3dPostprocess
<1>4. CASE TryKmsDirectScanout
  <2>1. CASE DirectRefuses
    BY <2>1, <1>u DEF DirectRefuses
  <2>2. CASE DirectBuildFails
    BY <2>2, <1>f, BuildFailsCopies DEF DirectBuildFails
  <2>3. CASE DirectPresent \/ DirectPresentFails
    BY <2>3, <1>b, <1>f DEF DirectPresent, DirectPresentFails
  <2> QED BY <1>4, <2>1, <2>2, <2>3 DEF TryKmsDirectScanout
<1>5. CASE ComposeScreen \/ ComposePresent \/ ComposePresentFails
  BY <1>5, <1>u DEF ComposeScreen, ComposePresent, ComposePresentFails, ComposeBuffer, Compose
<1>6. CASE UNCHANGED nativeVars
  BY <1>6, <1>u DEF nativeVars
<1> QED BY <1>1, <1>2, <1>3, <1>4, <1>5, <1>6 DEF NativeNext, PresentLayerList

LEMMA ShownTypesStep ==
  ShownTypes /\ [NativeNext]_nativeVars => ShownTypes'
<1> SUFFICES ASSUME ShownTypes, [NativeNext]_nativeVars PROVE ShownTypes'
  OBVIOUS
<1> USE LayerNames DEF ShownTypes, shownVars
<1>1. CASE NativeCall
  <2>1. ASSUME NEW ls \in SUBSET NativeLayerSet, PresentReady(ls) PROVE ShownTypes'
    BY <2>1 DEF PresentReady, Presenting, Called
  <2>2. ASSUME NEW l \in NativeLayerSet, ShowLayer(l) PROVE ShownTypes'
    BY <2>2, NativeAssumption DEF ShowLayer, Presenting, Called
  <2>3. ASSUME NEW l \in NativeLayerSet, HideLayer(l) PROVE ShownTypes'
    BY <2>3 DEF HideLayer, Vanish, NoRect, Presenting, Called
  <2>4. ASSUME NEW l \in NativeLayerSet, FreeLayer(l) PROVE ShownTypes'
    BY <2>4 DEF FreeLayer, Vanish, NoRect, NotPresented, Called
  <2>5. ASSUME NEW l \in NativeLayerSet, ChangeLayer(l) PROVE ShownTypes'
    BY <2>5 DEF ChangeLayer, NotPresented, Called
  <2>6. CASE CaptureRgb888
    BY <2>6 DEF CaptureRgb888, NotPresented
  <2> QED BY <1>1, <2>1, <2>2, <2>3, <2>4, <2>5, <2>6 DEF NativeCall
<1>2. CASE PresentFenced \/ PresentHeld \/ NativeVBlank
  BY <1>2 DEF PresentFenced, PresentHeld, NativeVBlank, NotPresented
<1>b. kms_back_buffer_index \in Indexes
  BY DEF kms_back_buffer_index, Indexes
<1>3. CASE TryV3dPostprocess
  <2>1. CASE V3dRefuses
    BY <2>1 DEF V3dRefuses, GivesUp
  <2>2. CASE V3dBuildFails
    BY <2>2 DEF V3dBuildFails, BuildFails, GivesUp
  <2>3. CASE V3dRenderFails \/ V3dPresentFails \/ V3dCopyPresentFails
    BY <2>3 DEF V3dRenderFails, V3dPresentFails, V3dCopyPresentFails, GivesUp
  <2>4. CASE V3dPresent \/ V3dCopyPresent
    BY <2>4, <1>b DEF V3dPresent, V3dCopyPresent, Shown
  <2> QED BY <1>3, <2>1, <2>2, <2>3, <2>4 DEF TryV3dPostprocess
<1>4. CASE TryKmsDirectScanout
  <2>1. CASE DirectRefuses \/ DirectBuildFails \/ DirectPresentFails
    BY <2>1 DEF DirectRefuses, DirectBuildFails, DirectPresentFails, BuildFails, GivesUp
  <2>2. CASE DirectPresent
    BY <2>2, <1>b DEF DirectPresent, Shown
  <2> QED BY <1>4, <2>1, <2>2 DEF TryKmsDirectScanout
<1>5. CASE ComposeScreen \/ ComposePresent \/ ComposePresentFails
  BY <1>5, <1>b DEF ComposeScreen, ComposePresent, ComposePresentFails, ComposeBuffer,
    Compose, NotPresented
<1>6. CASE UNCHANGED nativeVars
  BY <1>6 DEF nativeVars
<1> QED BY <1>1, <1>2, <1>3, <1>4, <1>5, <1>6 DEF NativeNext, PresentLayerList

---------------------------------------------------------------------------
(* What is submitted, and what is scanned.                                  *)

\* A composed buffer or a copy of the base layer on the screen is the front one.
FrontPlanes ==
  \A p \in submittedPlanes :
    /\ p.from.layer \in NativeLayerSet /\ p.from.index \in 0..2
    /\ p.from.kind = "kms" => p.from.index = kmsFront
    /\ p.from.kind = "layer" /\ p.from.layer = BaseLayer => p.from.index = kmsFront

\* Without a native mode the one list stays.
FirmwarePlane == board = "Firmware" => submittedPlanes = {KmsPlane(0)}

\* Behind the fence the list submitted last is the one scanned.
FencePasses ==
  board = "Pi4" /\ path \in {"V3d", "Direct", "Software"} => scannedMemory = MemoryOf(submittedPlanes)

\* An overlay is shown from its front buffer, unless a present has failed or the
\* present under way has built the other one, and then it is not built again.
OverlayPlanes ==
  \A p \in submittedPlanes :
    p.from.kind = "layer" /\ p.from.layer \in OverlayLayers =>
      \/ p.from.index = hwFront[p.from.layer]
      \/ p.from.layer \in stranded
      \/ p.from.layer \notin dirty_ /\ path \in {"Direct", "Software"}

PlanesInv == FrontPlanes /\ FirmwarePlane /\ FencePasses

\* The planes that are submitted.
LEMMA NewPlanes ==
  ASSUME ShownTypes, CopyTypes, NEW ls \in SUBSET NativeLayerSet
  PROVE  /\ \A p \in BuiltPlanes(ls) :
              /\ p.from.kind = "layer" /\ p.from.layer \in ls /\ p.at = dst[p.from.layer]
              /\ p.from.index = SelectedBuffer(p.from.layer) /\ p.from.index \in Indexes
              /\ p.from.layer = BaseLayer => p.from.index = kms_back_buffer_index
         /\ \A l \in ls : \E p \in BuiltPlanes(ls) : p.from.layer = l
         /\ V3dPlane.from.kind = "v3d" /\ V3dPlane.from.layer = BaseLayer /\ V3dPlane.from.index = 2
         /\ V3dPlane.at = dst[BaseLayer]
         /\ \A i : KmsPlane(i).from.kind = "kms" /\ KmsPlane(i).from.layer = BaseLayer
                     /\ KmsPlane(i).from.index = i
<1> USE LayerNames
<1>1. \A l \in NativeLayerSet : SelectedBuffer(l) \in Indexes
  BY SelectedInIndexes DEF ShownTypes
<1>2. SelectedBuffer(BaseLayer) = kms_back_buffer_index
  BY DEF SelectedBuffer
<1>3. \A l \in ls : LayerPlane(l, SelectedBuffer(l)) \in BuiltPlanes(ls)
  BY DEF BuiltPlanes
<1>4. \A p \in BuiltPlanes(ls) : \E l \in ls : p = LayerPlane(l, SelectedBuffer(l))
  BY DEF BuiltPlanes
<1>5. \A l, i : /\ LayerPlane(l, i).from.kind = "layer" /\ LayerPlane(l, i).from.layer = l
                /\ LayerPlane(l, i).from.index = i /\ LayerPlane(l, i).at = dst[l]
  BY DEF LayerPlane, Memory
<1>6. /\ V3dPlane.from.kind = "v3d" /\ V3dPlane.from.layer = BaseLayer /\ V3dPlane.from.index = 2
      /\ V3dPlane.at = dst[BaseLayer]
      /\ \A i : KmsPlane(i).from.kind = "kms" /\ KmsPlane(i).from.layer = BaseLayer
                     /\ KmsPlane(i).from.index = i
  BY DEF V3dPlane, KmsPlane, Memory, NoIndex
<1> HIDE DEF BuiltPlanes, LayerPlane, V3dPlane, KmsPlane
<1> QED BY <1>1, <1>2, <1>3, <1>4, <1>5, <1>6

LEMMA PlanesStep ==
  PlanesInv /\ CopyTypes /\ ShownTypes /\ [NativeNext]_nativeVars => PlanesInv'
<1> SUFFICES ASSUME PlanesInv, CopyTypes, ShownTypes, [NativeNext]_nativeVars PROVE PlanesInv'
  OBVIOUS
<1> USE LayerNames
<1>k. \A i : KmsPlane(i)' = KmsPlane(i)
  BY DEF KmsPlane, Memory
<1>m. MemoryOf(submittedPlanes)' = MemoryOf(submittedPlanes')
  BY DEF MemoryOf
<1>b. kms_back_buffer_index \in Indexes
  BY DEF ShownTypes, kms_back_buffer_index, Indexes
<1>s. ShownOverlays \in SUBSET NativeLayerSet /\ showing_ \in SUBSET NativeLayerSet
        /\ BaseLayer \notin ShownOverlays
  BY DEF ShownTypes, ShownOverlays
\* A step that submits nothing.
<1>q. ASSUME UNCHANGED <<board, submittedPlanes, scannedMemory, kmsFront>>,
             path' \in {"Idle", "Fence"} \/ (path \in {"V3d", "Direct", "Software"} /\ board = "Pi4") \/ board # "Pi4"
      PROVE  PlanesInv'
  <2>1. FrontPlanes'
    BY <1>q DEF PlanesInv, FrontPlanes
  <2>2. FirmwarePlane'
    BY <1>q, <1>k DEF PlanesInv, FirmwarePlane
  <2>3. FencePasses'
    BY <1>q DEF PlanesInv, FencePasses, MemoryOf
  <2> QED BY <2>1, <2>2, <2>3 DEF PlanesInv
\* A step that submits a list.
<1>p. ASSUME UNCHANGED board, board # "Firmware", path' = "Idle",
             \A p \in submittedPlanes' :
                /\ p.from.layer \in NativeLayerSet /\ p.from.index \in 0..2
                /\ p.from.kind = "kms" => p.from.index = kmsFront'
                /\ p.from.kind = "layer" /\ p.from.layer = BaseLayer => p.from.index = kmsFront'
      PROVE  PlanesInv'
  BY <1>p DEF PlanesInv, FrontPlanes, FirmwarePlane, FencePasses
<1>1. CASE NativeCall
  <2>1. ASSUME NEW ls \in SUBSET NativeLayerSet, PresentReady(ls) PROVE PlanesInv'
    BY <2>1, <1>q DEF PresentReady, Presenting, Called, scanVars
  <2>2. ASSUME NEW l \in NativeLayerSet, ShowLayer(l) PROVE PlanesInv'
    BY <2>2, <1>q DEF ShowLayer, Presenting, Called, scanVars
  <2>3. ASSUME NEW l \in NativeLayerSet, HideLayer(l) PROVE PlanesInv'
    BY <2>3, <1>q DEF HideLayer, Presenting, Called, scanVars
  <2>4. ASSUME NEW l \in NativeLayerSet, FreeLayer(l) \/ ChangeLayer(l) PROVE PlanesInv'
    BY <2>4, <1>q DEF FreeLayer, ChangeLayer, NotPresented, Called, scanVars
  <2>5. CASE CaptureRgb888
    BY <2>5, <1>q DEF CaptureRgb888, NotPresented, shownVars, scanVars
  <2> QED BY <1>1, <2>1, <2>2, <2>3, <2>4, <2>5 DEF NativeCall
<1>2. CASE PresentFenced
  <2>1. FencePasses'
    BY <1>2, <1>m DEF PresentFenced, FencePasses, scanVars
  <2>2. FrontPlanes' /\ FirmwarePlane'
    BY <1>2, <1>k DEF PresentFenced, PlanesInv, FrontPlanes, FirmwarePlane, scanVars, shownVars
  <2> QED BY <2>1, <2>2 DEF PlanesInv
<1>3. CASE PresentHeld
  BY <1>3, <1>q DEF PresentHeld, NotPresented, shownVars, scanVars
<1>4. CASE NativeVBlank
  <2>1. FencePasses'
    BY <1>4, <1>m DEF NativeVBlank, FencePasses
  <2>2. FrontPlanes' /\ FirmwarePlane'
    BY <1>4, <1>k DEF NativeVBlank, PlanesInv, FrontPlanes, FirmwarePlane, shownVars
  <2> QED BY <2>1, <2>2 DEF PlanesInv
<1>5. CASE TryV3dPostprocess
  <2>1. CASE V3dRefuses \/ V3dRenderFails \/ V3dPresentFails \/ V3dCopyPresentFails
    BY <2>1, <1>q DEF V3dRefuses, V3dStarts, V3dRenderFails, V3dPresentFails,
      V3dCopyPresentFails, GivesUp, shownVars, scanVars
  <2>2. CASE V3dBuildFails
    BY <2>2, <1>q DEF V3dBuildFails, V3dStarts, BuildFails, GivesUp, shownVars, scanVars
  <2>3. CASE V3dPresent
    <3>1. submittedPlanes' = {V3dPlane} \cup BuiltPlanes(ShownOverlays)
            /\ UNCHANGED board /\ board # "Firmware" /\ path' = "Idle"
      BY <2>3 DEF V3dPresent, V3dStarts, Submit, Shown, shownVars
    <3>2. \A p \in submittedPlanes' :
            /\ p.from.layer \in NativeLayerSet /\ p.from.index \in 0..2
            /\ p.from.kind # "kms"
            /\ ~(p.from.kind = "layer" /\ p.from.layer = BaseLayer)
      BY <3>1, <1>s, NewPlanes DEF Indexes
    <3> QED BY <3>1, <3>2, <1>p
  <2>4. CASE V3dCopyPresent
    <3>1. submittedPlanes' = {KmsPlane(kms_back_buffer_index)} \cup BuiltPlanes(ShownOverlays)
            /\ UNCHANGED board /\ board # "Firmware" /\ path' = "Idle"
            /\ kmsFront' = kms_back_buffer_index
      BY <2>4 DEF V3dCopyPresent, V3dStarts, Submit, Shown, shownVars
    <3>2. \A p \in submittedPlanes' :
            /\ p.from.layer \in NativeLayerSet /\ p.from.index \in 0..2
            /\ p.from.kind = "kms" => p.from.index = kms_back_buffer_index
            /\ ~(p.from.kind = "layer" /\ p.from.layer = BaseLayer)
      BY <3>1, <1>s, <1>b, NewPlanes DEF Indexes
    <3> QED BY <3>1, <3>2, <1>p
  <2> QED BY <1>5, <2>1, <2>2, <2>3, <2>4 DEF TryV3dPostprocess
<1>6. CASE TryKmsDirectScanout
  <2>1. CASE DirectRefuses \/ DirectPresentFails
    BY <2>1, <1>q DEF DirectRefuses, DirectStarts, DirectPresentFails, GivesUp, shownVars, scanVars
  <2>2. CASE DirectBuildFails
    BY <2>2, <1>q DEF DirectBuildFails, DirectStarts, BuildFails, GivesUp, shownVars, scanVars
  <2>3. CASE DirectPresent
    <3>1. submittedPlanes' = BuiltPlanes(showing_)
            /\ UNCHANGED board /\ board # "Firmware" /\ path' = "Idle"
            /\ kmsFront' = kms_back_buffer_index
      BY <2>3 DEF DirectPresent, DirectStarts, Submit, Shown, shownVars
    <3>2. \A p \in submittedPlanes' :
            /\ p.from.layer \in NativeLayerSet /\ p.from.index \in 0..2
            /\ p.from.kind # "kms"
            /\ p.from.layer = BaseLayer => p.from.index = kms_back_buffer_index
      BY <3>1, <1>s, NewPlanes DEF Indexes
    <3> QED BY <3>1, <3>2, <1>p
  <2> QED BY <1>6, <2>1, <2>2, <2>3 DEF TryKmsDirectScanout
<1>7. CASE ComposeScreen \/ ComposePresentFails
  BY <1>7, <1>q DEF ComposeScreen, ComposePresentFails, ComposeBuffer, Compose,
    NotPresented, shownVars, scanVars
<1>8. CASE ComposePresent
  <2>1. submittedPlanes' = {KmsPlane(kms_back_buffer_index)}
          /\ UNCHANGED board /\ board # "Firmware" /\ path' = "Idle"
          /\ kmsFront' = kms_back_buffer_index
    BY <1>8 DEF ComposePresent, ComposeBuffer, Compose, Submit, shownVars
  <2>2. \A p \in submittedPlanes' : p.from.layer = BaseLayer /\ p.from.kind = "kms"
          /\ p.from.index = kms_back_buffer_index
    BY <2>1, <1>s, NewPlanes
  <2> QED BY <2>1, <2>2, <1>b, <1>p DEF Indexes
<1>9. CASE UNCHANGED nativeVars
  BY <1>9 DEF nativeVars, shownVars, scanVars, PlanesInv, FrontPlanes, FirmwarePlane,
    FencePasses,
     MemoryOf, KmsPlane, Memory
<1> QED BY <1>1, <1>2, <1>3, <1>4, <1>5, <1>6, <1>7, <1>8, <1>9 DEF NativeNext, PresentLayerList

LEMMA OverlayPlanesStep ==
  OverlayPlanes /\ FirmwarePlane /\ CopyTypes /\ ShownTypes /\ [NativeNext]_nativeVars
    => OverlayPlanes'
<1> SUFFICES ASSUME OverlayPlanes, FirmwarePlane, CopyTypes, ShownTypes, [NativeNext]_nativeVars
             PROVE  OverlayPlanes'
  OBVIOUS
<1> USE LayerNames
<1>s. ShownOverlays \in SUBSET NativeLayerSet /\ showing_ \in SUBSET NativeLayerSet
  BY DEF ShownTypes, ShownOverlays
\* A step that builds nothing and submits nothing.
<1>q. ASSUME UNCHANGED <<scanVars, hwFront>>,
             path' \in {"Idle", "Fence", "V3d"} \/ dirty_' \subseteq dirty_,
             path \in {"Direct", "Software"} => path' \in {"Direct", "Software"}
      PROVE  OverlayPlanes'
  <2> SUFFICES ASSUME NEW p \in submittedPlanes, p.from.kind = "layer",
                      p.from.layer \in OverlayLayers
               PROVE  \/ p.from.index = hwFront[p.from.layer]
                      \/ p.from.layer \in stranded
                      \/ p.from.layer \notin dirty_' /\ path' \in {"Direct", "Software"}
    BY <1>q DEF OverlayPlanes, scanVars
  <2> QED BY <1>q DEF OverlayPlanes
\* A step that builds planes and gives up.
<1>b. ASSUME NEW ls \in SUBSET NativeLayerSet, NEW lost, BuildPlanes(ls, lost),
             UNCHANGED scanVars, path' \in {"Direct", "Software"}
      PROVE  OverlayPlanes'
  <2>1. /\ dirty_' = {l \in dirty_ : l \notin ls}
        /\ \A l \in OverlayLayers : l \notin ls => hwFront'[l] = hwFront[l]
    BY <1>b DEF BuildPlanes
  <2> SUFFICES ASSUME NEW p \in submittedPlanes, p.from.kind = "layer",
                      p.from.layer \in OverlayLayers
               PROVE  \/ p.from.index = hwFront'[p.from.layer]
                      \/ p.from.layer \in stranded
                      \/ p.from.layer \notin dirty_' /\ path' \in {"Direct", "Software"}
    BY <1>b DEF OverlayPlanes, scanVars
  <2> QED BY <1>b, <2>1 DEF OverlayPlanes
\* A step that submits the planes it has built.
<1>p. ASSUME NEW ls \in SUBSET NativeLayerSet, BuildPlanes(ls, {}),
             \A p \in submittedPlanes' : p \in BuiltPlanes(ls) \/ p.from.kind # "layer"
      PROVE  OverlayPlanes'
  <2>1. \A l \in OverlayLayers : l \in ls => hwFront'[l] = SelectedBuffer(l)
    BY <1>p DEF BuildPlanes
  <2> SUFFICES ASSUME NEW p \in submittedPlanes', p.from.kind = "layer",
                      p.from.layer \in OverlayLayers
               PROVE  p.from.index = hwFront'[p.from.layer]
    BY DEF OverlayPlanes
  <2>2. p \in BuiltPlanes(ls)
    BY <1>p
  <2>3. p.from.layer \in ls /\ p.from.index = SelectedBuffer(p.from.layer)
    BY <2>2, NewPlanes
  <2> QED BY <2>1, <2>3
<1>1. CASE NativeCall
  <2>1. UNCHANGED <<scanVars, hwFront>> /\ path = "Idle" /\ path' \in {"Idle", "Fence", "V3d"}
    BY <1>1 DEF NativeCall, PresentReady, ShowLayer, HideLayer, FreeLayer, ChangeLayer,
      CaptureRgb888, Presenting, NotPresented, Called, copyVars
  <2> QED BY <2>1, <1>q
<1>2. CASE PresentFenced \/ PresentHeld
  BY <1>2, <1>q DEF PresentFenced, PresentHeld, NotPresented, copyVars
<1>3. CASE NativeVBlank
  BY <1>3 DEF NativeVBlank, OverlayPlanes, copyVars
<1>4. CASE TryV3dPostprocess
  <2>1. CASE V3dRefuses
    BY <2>1, <1>q DEF V3dRefuses, GivesUp, copyVars
  <2>2. CASE V3dBuildFails
    <3>1. PICK l \in ShownOverlays : \E before \in SUBSET (ShownOverlays \ {l}), lost \in {{}, {l}} :
            BuildPlanes(before, lost)
      BY <2>2 DEF V3dBuildFails, BuildFails
    <3>2. PICK before \in SUBSET (ShownOverlays \ {l}), lost \in {{}, {l}} :
            BuildPlanes(before, lost)
      BY <3>1
    <3>3. UNCHANGED scanVars /\ path' = "Direct"
      BY <2>2 DEF V3dBuildFails, BuildFails, GivesUp
    <3> QED BY <3>2, <3>3, <1>s, <1>b
  <2>3. CASE V3dRenderFails \/ V3dPresentFails \/ V3dCopyPresentFails
    BY <2>3, <1>s, <1>b DEF V3dRenderFails, V3dPresentFails, V3dCopyPresentFails, GivesUp
  <2>4. CASE V3dPresent
    <3>1. submittedPlanes' = {V3dPlane} \cup BuiltPlanes(ShownOverlays)
            /\ BuildPlanes(ShownOverlays, {})
      BY <2>4 DEF V3dPresent, Submit
    <3>2. V3dPlane.from.kind = "v3d"
      BY <1>s, NewPlanes
    <3> QED BY <3>1, <3>2, <1>s, <1>p
  <2>5. CASE V3dCopyPresent
    <3>1. submittedPlanes' = {KmsPlane(kms_back_buffer_index)} \cup BuiltPlanes(ShownOverlays)
            /\ BuildPlanes(ShownOverlays, {})
      BY <2>5 DEF V3dCopyPresent, Submit
    <3>2. KmsPlane(kms_back_buffer_index).from.kind = "kms"
      BY <1>s, NewPlanes
    <3> QED BY <3>1, <3>2, <1>s, <1>p
  <2> QED BY <1>4, <2>1, <2>2, <2>3, <2>4, <2>5 DEF TryV3dPostprocess
<1>5. CASE TryKmsDirectScanout
  <2>1. CASE DirectRefuses
    BY <2>1, <1>q DEF DirectRefuses, GivesUp, copyVars
  <2>2. CASE DirectBuildFails
    <3>1. PICK l \in showing_ : \E before \in SUBSET (showing_ \ {l}), lost \in {{}, {l}} :
            BuildPlanes(before, lost)
      BY <2>2 DEF DirectBuildFails, BuildFails
    <3>2. PICK before \in SUBSET (showing_ \ {l}), lost \in {{}, {l}} :
            BuildPlanes(before, lost)
      BY <3>1
    <3>3. UNCHANGED scanVars /\ path' = "Software"
      BY <2>2 DEF DirectBuildFails, BuildFails, GivesUp
    <3> QED BY <3>2, <3>3, <1>s, <1>b
  <2>3. CASE DirectPresent
    <3>1. submittedPlanes' = BuiltPlanes(showing_) /\ BuildPlanes(showing_, {})
      BY <2>3 DEF DirectPresent, Submit
    <3> QED BY <3>1, <1>s, <1>p
  <2>4. CASE DirectPresentFails
    BY <2>4, <1>s, <1>b DEF DirectPresentFails, GivesUp
  <2> QED BY <1>5, <2>1, <2>2, <2>3, <2>4 DEF TryKmsDirectScanout
<1>6. CASE ComposeScreen
  <2>1. UNCHANGED <<scanVars, hwFront>> /\ path' = "Idle" /\ path = "Software"
    BY <1>6 DEF ComposeScreen, Compose, copyVars
  <2>2. board = "Firmware"
    BY <1>6 DEF ComposeScreen
  <2>3. submittedPlanes' = {KmsPlane(0)} /\ KmsPlane(0).from.kind = "kms"
    BY <2>1, <2>2, <1>s, NewPlanes DEF FirmwarePlane, scanVars
  <2> QED BY <2>3 DEF OverlayPlanes
<1>7. CASE ComposePresent
  <2>1. submittedPlanes' = {KmsPlane(kms_back_buffer_index)}
    BY <1>7 DEF ComposePresent, Submit
  <2>2. KmsPlane(kms_back_buffer_index).from.kind = "kms"
    BY <1>s, NewPlanes
  <2> QED BY <2>1, <2>2 DEF OverlayPlanes
\* The overlays that are not shown from their front buffers are noted.
<1>8. CASE ComposePresentFails
  <2>1. UNCHANGED <<submittedPlanes, hwFront>> /\ stranded' = FrontMoved
    BY <1>8 DEF ComposePresentFails, ComposeBuffer, Compose, copyVars
  <2> QED BY <2>1 DEF OverlayPlanes, FrontMoved
<1>9. CASE UNCHANGED nativeVars
  BY <1>9 DEF nativeVars, scanVars, copyVars, OverlayPlanes
<1> QED BY <1>1, <1>2, <1>3, <1>4, <1>5, <1>6, <1>7, <1>8, <1>9 DEF NativeNext, PresentLayerList

---------------------------------------------------------------------------
(* The composition by the processor.                                        *)

\* What a column held when the snapshot was taken.
Snapped(c) == {l \in snapshot.showing : c \in snapshot.at[l]}

\* A column of the composition holds what the snapshot says, unless one of its
\* layers has changed.
ComposedSound ==
  snapshot.valid => \A c \in Screen :
    composed[c] = IF Snapped(c) \subseteq snapshot.same THEN Snapped(c) ELSE Stale

\* A buffer has the columns it has not missed.
BuffersFollow ==
  snapshot.valid => \A i \in Indexes, c \in Screen :
    c \in kmsPending[i] \/ kmsBuffer[i][c] \in {composed[c], Foreign}

\* The screen of the firmware has all of them.
FirmwareFollows ==
  snapshot.valid /\ board = "Firmware" => \A c \in Screen : kmsBuffer[0][c] = composed[c]

SoftInv == SoftTypes /\ ComposedSound /\ BuffersFollow /\ FirmwareFollows

LEMMA InvalidatedSoft == ASSUME Invalidated PROVE SoftInv'
<1>1. Blank \in Pictures /\ NoSnapshot \in Snapshots /\ NoSnapshot.valid = FALSE
  BY DEF Blank, Pictures, NoSnapshot, Snapshots, NoRect
<1>2. SoftTypes'
  BY <1>1 DEF Invalidated, SoftTypes, Indexes
<1>3. ~snapshot.valid'
  BY <1>1 DEF Invalidated
<1> QED BY <1>2, <1>3 DEF SoftInv, ComposedSound, BuffersFollow, FirmwareFollows

LEMMA OutdatedPicture ==
  ASSUME NEW p \in Pictures, NEW ls
  PROVE  Outdated(p, ls) \in Pictures
BY DEF Pictures, Outdated, Stale

LEMMA MarkDirtySoft ==
  ASSUME SoftInv, NEW ls \in SUBSET NativeLayerSet, MarkDirty(ls), UNCHANGED <<board, kmsPending>>
  PROVE  SoftInv'
<1> USE LayerNames
<1>1. /\ snapshot' \in Snapshots /\ snapshot'.valid = snapshot.valid
      /\ snapshot'.same = snapshot.same \ ls /\ snapshot'.showing = snapshot.showing
      /\ snapshot'.at = snapshot.at
  BY DEF MarkDirty, SoftInv, SoftTypes, Snapshots
<1>2. /\ \A c \in Screen : composed'[c] = IF composed[c] \cap ls = {} THEN composed[c] ELSE Stale
      /\ \A i \in Indexes, c \in Screen :
           kmsBuffer'[i][c] = IF kmsBuffer[i][c] \cap ls = {} THEN kmsBuffer[i][c] ELSE Stale
  BY DEF MarkDirty, Outdated
<1>3. SoftTypes'
  <2>1. composed' \in Pictures
    BY OutdatedPicture DEF MarkDirty, SoftInv, SoftTypes
  <2>2. kmsBuffer' \in [Indexes -> Pictures]
    <3>1. \A i \in Indexes : Outdated(kmsBuffer[i], ls) \in Pictures
      BY OutdatedPicture DEF SoftInv, SoftTypes
    <3> QED BY <3>1 DEF MarkDirty
  <2> QED BY <1>1, <2>1, <2>2 DEF SoftInv, SoftTypes
<1>4. \A c : Snapped(c)' = Snapped(c)
  BY <1>1 DEF Snapped
<1>5. ComposedSound'
  <2> SUFFICES ASSUME snapshot.valid, NEW c \in Screen
               PROVE  composed'[c] = IF Snapped(c) \subseteq snapshot.same \ ls
                                     THEN Snapped(c) ELSE Stale
    BY <1>1, <1>4 DEF ComposedSound
  <2>1. composed[c] = IF Snapped(c) \subseteq snapshot.same THEN Snapped(c) ELSE Stale
    BY DEF SoftInv, ComposedSound
  <2> QED BY <2>1, <1>2
<1>6. Foreign \cap ls = {}
  BY DEF Foreign
<1>7. BuffersFollow'
  <2> SUFFICES ASSUME snapshot.valid, NEW i \in Indexes, NEW c \in Screen
               PROVE  c \in kmsPending[i] \/ kmsBuffer'[i][c] \in {composed'[c], Foreign}
    BY <1>1 DEF BuffersFollow
  <2>1. c \in kmsPending[i] \/ kmsBuffer[i][c] = composed[c] \/ kmsBuffer[i][c] = Foreign
    BY DEF SoftInv, BuffersFollow
  <2> QED BY <2>1, <1>2, <1>6
<1>8. FirmwareFollows'
  BY <1>1, <1>2 DEF SoftInv, FirmwareFollows, Indexes
<1> QED BY <1>3, <1>5, <1>7, <1>8 DEF SoftInv

LEMMA DirtyRects ==
  ASSUME NEW d \in SUBSET Screen, NEW r \in SUBSET Screen
  PROVE  /\ AddDirtyRect(d, r) \in SUBSET Screen
         /\ d \subseteq AddDirtyRect(d, r) /\ r \subseteq AddDirtyRect(d, r)
<1>1. \A c \in Screen : c \in Nat /\ c <= c
  BY NativeAssumption DEF Screen
<1> QED BY <1>1 DEF AddDirtyRect

LEMMA DirtyCovers ==
  ASSUME SoftTypes, ShownTypes
  PROVE  /\ Dirty \in SUBSET Screen
         /\ ~snapshot.valid => Dirty = Screen
         /\ \A l \in NativeLayerSet, c \in Screen :
              snapshot.valid /\ Changed(l) /\ c \in ChangedRect(l) => c \in Dirty
<1> DEFINE R == UNION {ChangedRect(l) : l \in {k \in NativeLayerSet : Changed(k)}}
<1>1. \A l \in NativeLayerSet : ChangedRect(l) \in SUBSET Screen
  BY DEF SoftTypes, ShownTypes, Snapshots, ChangedRect
<1>2. R \in SUBSET Screen
  BY <1>1
<1>3. \A l \in NativeLayerSet, c \in Screen : Changed(l) /\ c \in ChangedRect(l) => c \in R
  OBVIOUS
<1>4. Dirty = IF ~snapshot.valid THEN Screen ELSE AddDirtyRect({}, R)
  BY DEF Dirty
<1> HIDE DEF R
<1>5. AddDirtyRect({}, R) \in SUBSET Screen /\ R \subseteq AddDirtyRect({}, R)
  BY <1>2, DirtyRects
<1> QED BY <1>3, <1>4, <1>5

\* After a composition every column is right, whether it was drawn or kept.
LEMMA ComposeRight ==
  ASSUME SoftInv, ShownTypes, Compose
  PROVE  /\ \A c \in Screen : composed'[c] = Drawn(c)
         /\ \A c \in Screen : c \notin Dirty => composed'[c] = composed[c]
         /\ snapshot' \in Snapshots /\ snapshot'.valid /\ composed' \in Pictures
         /\ ComposedSound'
<1> USE LayerNames
<1>1. \A c \in Screen : composed'[c] = IF c \in Dirty THEN Drawn(c) ELSE composed[c]
  BY DEF Compose
<1>2. snapshot' = [valid |-> TRUE, same |-> NativeLayerSet, showing |-> showing_, at |-> dst]
  BY DEF Compose
<1>3. snapshot' \in Snapshots /\ snapshot'.valid /\ snapshot'.same = NativeLayerSet
        /\ snapshot'.showing = showing_ /\ snapshot'.at = dst
  BY <1>2 DEF Snapshots, ShownTypes
<1>4. ASSUME NEW c \in Screen, c \notin Dirty PROVE composed[c] = Drawn(c)
  <2>1. snapshot.valid
    BY <1>4, DirtyCovers DEF SoftInv
  <2>2. \A l \in NativeLayerSet : Changed(l) => c \notin ChangedRect(l)
    BY <1>4, <2>1, DirtyCovers DEF SoftInv
  <2>3. snapshot.showing \subseteq NativeLayerSet /\ showing_ \subseteq NativeLayerSet
    BY DEF SoftInv, SoftTypes, Snapshots, ShownTypes
  <2>4. Snapped(c) \subseteq snapshot.same
    <3> SUFFICES ASSUME NEW l \in snapshot.showing, c \in snapshot.at[l] PROVE l \in
      snapshot.same
      BY DEF Snapped
    <3>1. c \in ChangedRect(l) /\ l \in NativeLayerSet
      BY <2>3 DEF ChangedRect
    <3> QED BY <3>1, <2>2 DEF Changed
  <2>5. ASSUME NEW l \in NativeLayerSet
        PROVE  (l \in snapshot.showing /\ c \in snapshot.at[l]) <=> (l \in showing_ /\ c \in dst[l])
    <3>1. CASE Changed(l)
      BY <3>1, <2>2 DEF ChangedRect
    <3>2. CASE ~Changed(l)
      BY <3>2 DEF Changed
    <3> QED BY <3>1, <3>2
  <2>6. Snapped(c) = Drawn(c)
    BY <2>3, <2>5 DEF Snapped, Drawn
  <2> QED BY <2>1, <2>4, <2>6 DEF SoftInv, ComposedSound
<1>5. \A c \in Screen : composed'[c] = Drawn(c)
  BY <1>1, <1>4
<1>6. \A c : Snapped(c)' = Drawn(c) /\ Drawn(c) \subseteq NativeLayerSet
  BY <1>3 DEF Snapped, Drawn, ShownTypes
<1>7. ComposedSound'
  BY <1>3, <1>5, <1>6 DEF ComposedSound
<1>8. composed' \in Pictures
  BY <1>5, <1>6 DEF Compose, Pictures
<1> QED BY <1>1, <1>3, <1>5, <1>7, <1>8

LEMMA CopiedPictures ==
  ASSUME SoftInv, ShownTypes, Compose, NEW b \in Indexes, NEW cs \in SUBSET Screen,
         kmsBuffer' = Copied(b, cs)
  PROVE  /\ kmsBuffer' \in [Indexes -> Pictures]
         /\ \A c \in Screen : kmsBuffer'[b][c] = IF c \in cs THEN composed'[c] ELSE kmsBuffer[b][c]
         /\ \A i \in Indexes, c \in Screen : i # b /\ c \notin Dirty => kmsBuffer'[i][c] = kmsBuffer[i][c]
<1>1. /\ \A c \in Screen : kmsBuffer'[b][c] = IF c \in cs THEN composed'[c] ELSE kmsBuffer[b][c]
      /\ \A i \in Indexes, c \in Screen : i # b => kmsBuffer'[i][c] =
                                            IF c \in Dirty THEN Stale ELSE kmsBuffer[i][c]
  BY DEF Copied
<1>2. \A c \in Screen : composed'[c] \in SUBSET (NativeLayerSet \cup {"stale", "v3d"})
  BY ComposeRight DEF Pictures
<1>3. \A i \in Indexes, c \in Screen :
         kmsBuffer'[i][c] \in SUBSET (NativeLayerSet \cup {"stale", "v3d"})
  <2>1. \A i \in Indexes, c \in Screen :
          kmsBuffer[i][c] \in SUBSET (NativeLayerSet \cup {"stale", "v3d"})
    BY DEF SoftInv, SoftTypes, Pictures
  <2> QED BY <1>1, <1>2, <2>1 DEF Stale
<1>4. kmsBuffer' \in [Indexes -> Pictures]
  BY <1>3 DEF Copied, Pictures
<1> QED BY <1>1, <1>4

\* The screen of the firmware takes the dirty columns.
LEMMA ComposeScreenSoft ==
  ASSUME SoftInv, ShownTypes, ComposeScreen
  PROVE  SoftInv' /\ \A c \in Screen : kmsBuffer'[0][c] = Drawn(c)
<1>1. Compose /\ kmsBuffer' = Copied(0, Dirty) /\ board = "Firmware" /\ board' = board
        /\ kmsPending' = [i \in Indexes |-> AddDirtyRect(kmsPending[i], Dirty)]
  BY DEF ComposeScreen, Compose, shownVars
<1>2. 0 \in Indexes /\ Dirty \in SUBSET Screen /\ (~snapshot.valid => Dirty = Screen)
  BY DirtyCovers DEF Indexes, SoftInv
<1>3. \A i \in Indexes : kmsPending'[i] \in SUBSET Screen /\ kmsPending[i] \subseteq kmsPending'[i]
                           /\ Dirty \subseteq kmsPending'[i]
  BY <1>1, <1>2, DirtyRects DEF SoftInv, SoftTypes
<1>4. SoftTypes'
  BY <1>1, <1>2, <1>3, ComposeRight, CopiedPictures DEF SoftTypes
<1>5. \A c \in Screen : kmsBuffer'[0][c] = IF c \in Dirty THEN composed'[c] ELSE kmsBuffer[0][c]
  BY <1>1, <1>2, CopiedPictures
<1>6. \A c \in Screen : c \notin Dirty => kmsBuffer[0][c] = composed[c]
  BY <1>1, <1>2 DEF SoftInv, FirmwareFollows
<1>7. \A c \in Screen : kmsBuffer'[0][c] = composed'[c]
  BY <1>1, <1>5, <1>6, ComposeRight
<1>8. BuffersFollow'
  <2> SUFFICES ASSUME NEW i \in Indexes, NEW c \in Screen
               PROVE  c \in kmsPending'[i] \/ kmsBuffer'[i][c] \in {composed'[c], Foreign}
    BY DEF BuffersFollow
  <2>1. CASE c \in Dirty
    BY <2>1, <1>3
  <2>2. CASE c \notin Dirty
    <3>1. composed'[c] = composed[c] /\ snapshot.valid
      BY <2>2, <1>1, <1>2, ComposeRight
    <3>2. c \in kmsPending[i] \/ kmsBuffer[i][c] \in {composed[c], Foreign}
      BY <3>1 DEF SoftInv, BuffersFollow
    <3>3. kmsBuffer'[i][c] = kmsBuffer[i][c]
      BY <2>2, <1>1, <1>2, <1>5, CopiedPictures
    <3> QED BY <3>1, <3>2, <3>3, <1>3
  <2> QED BY <2>1, <2>2
<1>9. FirmwareFollows'
  BY <1>7 DEF FirmwareFollows
<1> QED BY <1>1, <1>4, <1>7, <1>8, <1>9, ComposeRight DEF SoftInv

\* The back buffer takes what it has missed.
LEMMA ComposeBufferSoft ==
  ASSUME SoftInv, ShownTypes, ComposeBuffer
  PROVE  SoftInv' /\ \A c \in Screen : kmsBuffer'[kms_back_buffer_index][c] \in {Drawn(c), Foreign}
<1> DEFINE back == kms_back_buffer_index
           missed == [i \in Indexes |-> AddDirtyRect(kmsPending[i], Dirty)]
<1>1. Compose /\ kmsBuffer' = Copied(back, missed[back]) /\ board # "Firmware" /\ board' = board
        /\ kmsPending' = [missed EXCEPT ![back] = {}]
  BY DEF ComposeBuffer, Compose, shownVars
<1>2. back \in Indexes /\ Dirty \in SUBSET Screen /\ (~snapshot.valid => Dirty = Screen)
  BY DirtyCovers DEF Indexes, SoftInv, ShownTypes, kms_back_buffer_index
<1>3. \A i \in Indexes : missed[i] \in SUBSET Screen /\ kmsPending[i] \subseteq missed[i]
                           /\ Dirty \subseteq missed[i]
  BY <1>2, DirtyRects DEF SoftInv, SoftTypes
<1>4. /\ kmsPending' \in [Indexes -> SUBSET Screen]
      /\ \A i \in Indexes : i # back => kmsPending'[i] = missed[i]
  BY <1>1, <1>2, <1>3
<1> HIDE DEF back, missed
<1>5. /\ kmsBuffer' \in [Indexes -> Pictures]
      /\ \A c \in Screen : kmsBuffer'[back][c] = IF c \in missed[back] THEN composed'[c] ELSE kmsBuffer[back][c]
      /\ \A i \in Indexes, c \in Screen : i # back /\ c \notin Dirty => kmsBuffer'[i][c] = kmsBuffer[i][c]
  BY <1>1, <1>2, <1>3, CopiedPictures
<1>6. SoftTypes'
  BY <1>1, <1>4, <1>5, ComposeRight DEF SoftTypes
<1>7. ASSUME NEW c \in Screen PROVE kmsBuffer'[back][c] \in {composed'[c], Foreign}
  <2>1. CASE c \in missed[back]
    BY <2>1, <1>5
  <2>2. CASE c \notin missed[back]
    <3>1. c \notin Dirty /\ c \notin kmsPending[back]
      BY <2>2, <1>2, <1>3
    <3>2. composed'[c] = composed[c] /\ snapshot.valid
      BY <3>1, <1>1, <1>2, ComposeRight
    <3>3. kmsBuffer[back][c] \in {composed[c], Foreign}
      BY <3>1, <3>2, <1>2 DEF SoftInv, BuffersFollow
    <3> QED BY <2>2, <3>2, <3>3, <1>5
  <2> QED BY <2>1, <2>2
<1>8. BuffersFollow'
  <2> SUFFICES ASSUME NEW i \in Indexes, NEW c \in Screen
               PROVE  c \in kmsPending'[i] \/ kmsBuffer'[i][c] \in {composed'[c], Foreign}
    BY DEF BuffersFollow
  <2>1. CASE i = back
    BY <2>1, <1>7
  <2>2. CASE i # back /\ c \in Dirty
    BY <2>2, <1>3, <1>4
  <2>3. CASE i # back /\ c \notin Dirty
    <3>1. composed'[c] = composed[c] /\ snapshot.valid
      BY <2>3, <1>1, <1>2, ComposeRight
    <3>2. c \in kmsPending[i] \/ kmsBuffer[i][c] \in {composed[c], Foreign}
      BY <3>1 DEF SoftInv, BuffersFollow
    <3> QED BY <2>3, <3>1, <3>2, <1>3, <1>4, <1>5
  <2> QED BY <2>1, <2>2, <2>3
<1>9. FirmwareFollows'
  BY <1>1 DEF FirmwareFollows
<1>10. \A c \in Screen : kmsBuffer'[back][c] \in {Drawn(c), Foreign}
  BY <1>1, <1>7, ComposeRight
<1> QED BY <1>1, <1>6, <1>8, <1>9, <1>10, ComposeRight DEF SoftInv, back

LEMMA SoftStep ==
  SoftInv /\ ShownTypes /\ [NativeNext]_nativeVars => SoftInv'
<1> SUFFICES ASSUME SoftInv, ShownTypes, [NativeNext]_nativeVars PROVE SoftInv'
  OBVIOUS
<1>u. CASE UNCHANGED <<board, softVars>>
  BY <1>u DEF softVars, SoftInv, SoftTypes, ComposedSound, BuffersFollow, FirmwareFollows,
    Snapped
<1>m. ASSUME NEW ls \in SUBSET NativeLayerSet, MarkDirty(ls), Called PROVE SoftInv'
  BY <1>m, MarkDirtySoft DEF Called
<1>l. \A l \in NativeLayerSet : {l} \in SUBSET NativeLayerSet
  OBVIOUS
<1>1. CASE NativeCall
  <2>1. ASSUME NEW ls \in SUBSET NativeLayerSet, PresentReady(ls) PROVE SoftInv'
    BY <2>1, <1>m DEF PresentReady
  <2>2. ASSUME NEW l \in NativeLayerSet, ShowLayer(l) \/ HideLayer(l) \/ ChangeLayer(l) PROVE SoftInv'
    BY <2>2, <1>m, <1>l DEF ShowLayer, HideLayer, ChangeLayer
  <2>3. ASSUME NEW l \in NativeLayerSet, FreeLayer(l) PROVE SoftInv'
    BY <2>3, <1>u DEF FreeLayer, Called, softVars
  <2>4. CASE CaptureRgb888
    BY <2>4, InvalidatedSoft DEF CaptureRgb888
  <2> QED BY <1>1, <2>1, <2>2, <2>3, <2>4 DEF NativeCall
<1>2. CASE PresentFenced \/ PresentHeld \/ NativeVBlank
  BY <1>2, <1>u DEF PresentFenced, PresentHeld, NativeVBlank, shownVars
<1>3. CASE TryV3dPostprocess
  <2>1. CASE V3dRefuses \/ V3dBuildFails \/ V3dRenderFails \/ V3dPresentFails
    BY <2>1, <1>u DEF V3dRefuses, V3dBuildFails, BuildFails, V3dRenderFails,
      V3dPresentFails, GivesUp, shownVars
  <2>2. CASE V3dPresent \/ V3dCopyPresent
    BY <2>2, InvalidatedSoft DEF V3dPresent, V3dCopyPresent
  <2>3. CASE V3dCopyPresentFails
    <3>1. UNCHANGED <<board, composed, kmsPending, snapshot>> /\ board # "Firmware"
      BY <2>3 DEF V3dCopyPresentFails, V3dStarts, GivesUp, shownVars
    <3>b. kms_back_buffer_index \in Indexes
      BY DEF ShownTypes, kms_back_buffer_index, Indexes
    <3> DEFINE copy == IF snapshot.valid THEN [c \in Screen |-> Foreign] ELSE Blank
    <3>2. kmsBuffer' = [kmsBuffer EXCEPT ![kms_back_buffer_index] = copy]
      BY <2>3 DEF V3dCopyPresentFails
    <3>3. copy \in Pictures /\ (snapshot.valid => \A c \in Screen : copy[c] = Foreign)
      BY DEF Pictures, Foreign, Blank
    <3> HIDE DEF copy
    <3>4. SoftTypes'
      BY <3>1, <3>2, <3>3, <3>b DEF SoftInv, SoftTypes
    <3>5. ComposedSound'
      BY <3>1 DEF SoftInv, ComposedSound, Snapped
    <3>6. BuffersFollow'
      BY <3>1, <3>2, <3>3, <3>b DEF SoftInv, SoftTypes, BuffersFollow
    <3>7. FirmwareFollows'
      BY <3>1 DEF FirmwareFollows
    <3> QED BY <3>4, <3>5, <3>6, <3>7 DEF SoftInv
  <2> QED BY <1>3, <2>1, <2>2, <2>3 DEF TryV3dPostprocess
<1>4. CASE TryKmsDirectScanout
  <2>1. CASE DirectRefuses \/ DirectBuildFails \/ DirectPresentFails
    BY <2>1, <1>u DEF DirectRefuses, DirectBuildFails, BuildFails, DirectPresentFails,
      GivesUp, shownVars
  <2>2. CASE DirectPresent
    BY <2>2, InvalidatedSoft DEF DirectPresent
  <2> QED BY <1>4, <2>1, <2>2 DEF TryKmsDirectScanout
<1>5. CASE ComposeScreen
  BY <1>5, ComposeScreenSoft
<1>6. CASE ComposePresent \/ ComposePresentFails
  BY <1>6, ComposeBufferSoft DEF ComposePresent, ComposePresentFails
<1>7. CASE UNCHANGED nativeVars
  BY <1>7, <1>u DEF nativeVars, shownVars
<1> QED BY <1>1, <1>2, <1>3, <1>4, <1>5, <1>6, <1>7 DEF NativeNext, PresentLayerList

---------------------------------------------------------------------------
(* The picture.                                                             *)

NativeInv == ShownTypes /\ CopiesInv /\ PlanesInv /\ OverlayPlanes /\ SoftInv

LEMMA NativeInitInv == NativeInit => NativeInv
<1> SUFFICES ASSUME NativeInit PROVE NativeInv
  OBVIOUS
<1> USE LayerNames
<1>1. ShownTypes
  BY NativeAssumption DEF NativeInit, ShownTypes, Indexes, NoRect
<1>2. CopyTypes
  BY DEF NativeInit, CopyTypes, NoIndex
<1>3. OverlayCopies /\ BaseCopies
  BY DEF NativeInit, OverlayCopies, BaseCopies
<1>4. PlanesInv /\ OverlayPlanes
  <2>1. \A i : KmsPlane(i).from.kind = "kms" /\ KmsPlane(i).from.layer = BaseLayer /\ KmsPlane(i).from.index = i
    BY DEF KmsPlane, Memory
  <2>2. submittedPlanes = {KmsPlane(0)} /\ kmsFront = 0 /\ path = "Idle"
    BY DEF NativeInit
  <2> HIDE DEF KmsPlane
  <2> QED BY <2>1, <2>2 DEF PlanesInv, FrontPlanes, FirmwarePlane, FencePasses, OverlayPlanes
<1>5. SoftInv
  <2>1. Blank \in Pictures /\ NoSnapshot \in Snapshots /\ NoSnapshot.valid = FALSE
    BY DEF Blank, Pictures, NoSnapshot, Snapshots, NoRect
  <2>2. SoftTypes /\ ~snapshot.valid
    BY <2>1 DEF NativeInit, SoftTypes, Indexes
  <2> QED BY <2>2 DEF SoftInv, ComposedSound, BuffersFollow, FirmwareFollows
<1> QED BY <1>1, <1>2, <1>3, <1>4, <1>5 DEF NativeInv, CopiesInv

LEMMA NativeInvStep == NativeInv /\ [NativeNext]_nativeVars => NativeInv'
BY ShownTypesStep, CopiesStep, PlanesStep, OverlayPlanesStep, SoftStep
  DEF NativeInv, CopiesInv, PlanesInv

\* A list in which every layer has a plane.
LEMMA PlanesCurrent ==
  ASSUME ~snapshot'.valid, UNCHANGED shownVars,
         \A p \in submittedPlanes' :
            /\ p.from.layer \in showing_
            /\ p.from.kind # "kms" => p.at = dst[p.from.layer]
            /\ p.from.kind = "layer" => hwscale'[p.from.layer][p.from.index] = "fresh",
         \A l \in showing_ : \E p \in submittedPlanes' : p.from.layer = l
  PROVE  PictureCurrent'
<1>1. {p.from.layer : p \in submittedPlanes'} = showing_
  OBVIOUS
<1> QED BY <1>1 DEF PictureCurrent, ListCurrent, shownVars

LEMMA PictureStep ==
  NativeInv /\ PictureCurrent /\ [NativeNext]_nativeVars => PictureCurrent'
<1> SUFFICES ASSUME NativeInv, PictureCurrent, [NativeNext]_nativeVars PROVE PictureCurrent'
  OBVIOUS
<1> USE LayerNames
<1>f. /\ ShownTypes /\ CopyTypes /\ CopiesInv /\ SoftInv /\ kmsFront \in Indexes
      /\ showing_ \in SUBSET NativeLayerSet /\ ShownOverlays \in SUBSET NativeLayerSet
      /\ ShownOverlays \subseteq showing_
  BY DEF NativeInv, CopiesInv, ShownTypes, ShownOverlays
\* A present under way, or one that has shown nothing.
<1>n. ASSUME outcome' # "shown" \/ path' # "Idle" PROVE PictureCurrent'
  BY <1>n DEF PictureCurrent
<1>u. ASSUME UNCHANGED <<shownVars, copyVars, softVars, submittedPlanes, path, outcome>>
      PROVE  PictureCurrent'
  BY <1>u DEF PictureCurrent, ListCurrent, shownVars, copyVars, softVars, Drawn, KmsPlane,
    Memory
<1>i. Invalidated => ~snapshot'.valid
  BY DEF Invalidated, NoSnapshot
<1>1. CASE NativeCall
  <2>1. outcome' = "none"
    BY <1>1 DEF NativeCall, PresentReady, ShowLayer, HideLayer, FreeLayer, ChangeLayer,
      CaptureRgb888,
       Presenting, NotPresented
  <2> QED BY <2>1, <1>n
<1>2. CASE PresentFenced \/ PresentHeld
  BY <1>2, <1>n DEF PresentFenced, PresentHeld, NotPresented
<1>3. CASE NativeVBlank
  BY <1>3, <1>u DEF NativeVBlank
<1>4. CASE TryV3dPostprocess
  <2>1. CASE V3dRefuses \/ V3dBuildFails \/ V3dRenderFails \/ V3dPresentFails \/ V3dCopyPresentFails
    BY <2>1, <1>n DEF V3dRefuses, V3dBuildFails, BuildFails, V3dRenderFails, V3dPresentFails,
       V3dCopyPresentFails, GivesUp
  <2>b. ASSUME BuildPlanes(ShownOverlays, {})
        PROVE  \A l \in ShownOverlays : hwscale'[l][SelectedBuffer(l)] = "fresh"
    BY <2>b, <1>f, BuildPlanesCopies
  <2>2. CASE V3dPresent
    <3>1. /\ submittedPlanes' = {V3dPlane} \cup BuiltPlanes(ShownOverlays)
          /\ UNCHANGED shownVars /\ ~snapshot'.valid /\ BaseLayer \in showing_
          /\ BuildPlanes(ShownOverlays, {})
      BY <2>2, <1>i DEF V3dPresent, V3dStarts, Submit
    <3>2. \A p \in submittedPlanes' :
            /\ p.from.layer \in showing_
            /\ p.from.kind # "kms" => p.at = dst[p.from.layer]
            /\ p.from.kind = "layer" => hwscale'[p.from.layer][p.from.index] = "fresh"
      BY <3>1, <2>b, <1>f, NewPlanes
    <3>3. \A l \in showing_ : \E p \in submittedPlanes' : p.from.layer = l
      BY <3>1, <1>f, NewPlanes DEF ShownOverlays
    <3> QED BY <3>1, <3>2, <3>3, PlanesCurrent
  <2>3. CASE V3dCopyPresent
    <3>1. /\ submittedPlanes' = {KmsPlane(kms_back_buffer_index)} \cup BuiltPlanes(ShownOverlays)
          /\ UNCHANGED shownVars /\ ~snapshot'.valid /\ BaseLayer \in showing_
          /\ BuildPlanes(ShownOverlays, {})
      BY <2>3, <1>i DEF V3dCopyPresent, V3dStarts, Submit
    <3>2. \A p \in submittedPlanes' :
            /\ p.from.layer \in showing_
            /\ p.from.kind # "kms" => p.at = dst[p.from.layer]
            /\ p.from.kind = "layer" => hwscale'[p.from.layer][p.from.index] = "fresh"
      BY <3>1, <2>b, <1>f, NewPlanes
    <3>3. \A l \in showing_ : \E p \in submittedPlanes' : p.from.layer = l
      BY <3>1, <1>f, NewPlanes DEF ShownOverlays
    <3> QED BY <3>1, <3>2, <3>3, PlanesCurrent
  <2> QED BY <1>4, <2>1, <2>2, <2>3 DEF TryV3dPostprocess
<1>5. CASE TryKmsDirectScanout
  <2>1. CASE DirectRefuses \/ DirectBuildFails \/ DirectPresentFails
    BY <2>1, <1>n DEF DirectRefuses, DirectBuildFails, BuildFails, DirectPresentFails, GivesUp
  <2>2. CASE DirectPresent
    <3>1. /\ submittedPlanes' = BuiltPlanes(showing_)
          /\ UNCHANGED shownVars /\ ~snapshot'.valid /\ BuildPlanes(showing_, {})
      BY <2>2, <1>i DEF DirectPresent, Submit
    <3>b. \A l \in showing_ : hwscale'[l][SelectedBuffer(l)] = "fresh"
      BY <3>1, <1>f, BuildPlanesCopies
    <3>2. \A p \in submittedPlanes' :
            /\ p.from.layer \in showing_
            /\ p.from.kind # "kms" => p.at = dst[p.from.layer]
            /\ p.from.kind = "layer" => hwscale'[p.from.layer][p.from.index] = "fresh"
      BY <3>1, <3>b, <1>f, NewPlanes
    <3>3. \A l \in showing_ : \E p \in submittedPlanes' : p.from.layer = l
      BY <3>1, <1>f, NewPlanes
    <3> QED BY <3>1, <3>2, <3>3, PlanesCurrent
  <2> QED BY <1>5, <2>1, <2>2 DEF TryKmsDirectScanout
\* A composed buffer.
<1>d. ASSUME UNCHANGED shownVars, snapshot'.valid, NEW i \in Indexes, submittedPlanes' = {KmsPlane(i)},
             \A c \in Screen : kmsBuffer'[i][c] \in {Drawn(c), Foreign}
      PROVE  PictureCurrent'
  <2>1. KmsPlane(i)' = KmsPlane(i) /\ \A c : Drawn(c)' = Drawn(c)
    BY <1>d DEF KmsPlane, Memory, Drawn, shownVars
  <2> HIDE DEF KmsPlane, Drawn
  <2> QED BY <1>d, <2>1 DEF PictureCurrent, ListCurrent
<1>6. CASE ComposeScreen
  <2>1. UNCHANGED <<shownVars, submittedPlanes>> /\ board = "Firmware" /\ Compose
    BY <1>6 DEF ComposeScreen, Compose, scanVars
  <2>2. submittedPlanes' = {KmsPlane(0)}
    BY <2>1 DEF NativeInv, PlanesInv, FirmwarePlane
  <2>3. snapshot'.valid /\ \A c \in Screen : kmsBuffer'[0][c] = Drawn(c)
    BY <1>6, <1>f, <2>1, ComposeRight, ComposeScreenSoft
  <2>4. 0 \in Indexes
    BY DEF Indexes
  <2> QED BY <2>1, <2>2, <2>3, <2>4, <1>d
<1>7. CASE ComposePresent
  <2>1. UNCHANGED shownVars /\ Compose /\ ComposeBuffer
          /\ submittedPlanes' = {KmsPlane(kms_back_buffer_index)}
    BY <1>7 DEF ComposePresent, ComposeBuffer, Compose, Submit
  <2>2. snapshot'.valid
          /\ \A c \in Screen : kmsBuffer'[kms_back_buffer_index][c] \in {Drawn(c), Foreign}
    BY <1>f, <2>1, ComposeRight, ComposeBufferSoft
  <2>3. kms_back_buffer_index \in Indexes
    BY <1>f DEF Indexes, kms_back_buffer_index
  <2> QED BY <2>1, <2>2, <2>3, <1>d
<1>8. CASE ComposePresentFails
  BY <1>8, <1>n DEF ComposePresentFails, NotPresented
<1>9. CASE UNCHANGED nativeVars
  BY <1>9, <1>u DEF nativeVars, scanVars
<1> QED BY <1>1, <1>2, <1>3, <1>4, <1>5, <1>6, <1>7, <1>8, <1>9 DEF NativeNext, PresentLayerList

(***************************************************************************)
(* PresentLayerList: whatever paths were tried and have failed before, a   *)
(* present that a path has carried out shows every shown layer, in its     *)
(* place and up to date, for any number of layers, any screen and places.  *)
(***************************************************************************)
THEOREM PictureIsCurrent == NativeSpec => []PictureCurrent
<1>1. NativeInit => NativeInv /\ PictureCurrent
  <2>1. NativeInit => PictureCurrent
    BY DEF NativeInit, PictureCurrent
  <2> QED BY <2>1, NativeInitInv
<1>2. NativeInv /\ PictureCurrent /\ [NativeNext]_nativeVars => (NativeInv /\ PictureCurrent)'
  BY NativeInvStep, PictureStep
<1> QED BY <1>1, <1>2, PTL DEF NativeSpec

\* What is written next is a back buffer, or one that a failed present left.
LEMMA TargetsBehind ==
  ASSUME NativeInv, board # "Firmware", NEW m \in MemoryOf(submittedPlanes) \cap Targets
  PROVE  LeftBehind(m)
<1> USE LayerNames
<1>f. CopyTypes /\ ShownTypes /\ CopiesInv /\ kmsFront \in Indexes /\ showing_ \subseteq NativeLayerSet
  BY DEF NativeInv, CopiesInv, ShownTypes
<1>1. PICK p \in submittedPlanes : m = p.from
  BY DEF MemoryOf
<1>2. /\ m.kind = "kms" => m.index = kmsFront
      /\ m.kind = "layer" /\ m.layer = BaseLayer => m.index = kmsFront
  BY <1>1 DEF NativeInv, PlanesInv, FrontPlanes
<1>3. kms_back_buffer_index # kmsFront
  BY <1>f DEF Indexes, kms_back_buffer_index
<1>4. \/ m = Memory("kms", BaseLayer, kms_back_buffer_index)
      \/ \E l \in showing_ : NeedsCopy(l) /\ m = Memory("layer", l, SelectedBuffer(l))
  <2>1. m \in Targets
    OBVIOUS
  <2>2. CASE path = "V3d" /\ BaseLayer \in showing_
    BY <2>1, <2>2 DEF Targets, ShownOverlays
  <2>3. CASE path = "Direct"
    BY <2>1, <2>3 DEF Targets
  <2>4. CASE path = "Software"
    BY <2>1, <2>4 DEF Targets
  <2>5. CASE ~(path = "V3d" /\ BaseLayer \in showing_) /\ path # "Direct" /\ path # "Software"
    BY <2>1, <2>5 DEF Targets
  <2> QED BY <2>2, <2>3, <2>4, <2>5
<1>5. CASE m = Memory("kms", BaseLayer, kms_back_buffer_index)
  BY <1>5, <1>2, <1>3 DEF Memory
<1>6. CASE \E l \in showing_ : NeedsCopy(l) /\ m = Memory("layer", l, SelectedBuffer(l))
  <2>1. PICK l \in showing_ : NeedsCopy(l) /\ m = Memory("layer", l, SelectedBuffer(l))
    BY <1>6
  <2>2. m.kind = "layer" /\ m.layer = l /\ m.index = SelectedBuffer(l)
    BY <2>1 DEF Memory
  <2>3. CASE l = BaseLayer
    BY <2>2, <2>3, <1>2, <1>3 DEF SelectedBuffer
  <2>4. CASE l \in OverlayLayers
    <3>1. l \in dirty_
      <4> SUFFICES ASSUME l \notin dirty_ PROVE FALSE
        OBVIOUS
      <4>1. hwFront[l] \in Indexes /\ hwscale[l][hwFront[l]] = "fresh"
        BY <2>4, <1>f DEF CopiesInv, OverlayCopies
      <4>2. SelectedBuffer(l) = hwFront[l]
        BY <4>1, <2>4 DEF SelectedBuffer, Indexes, NoIndex
      <4> QED BY <2>1, <4>1, <4>2 DEF NeedsCopy
    <3>2. SelectedBuffer(l) # hwFront[l]
      <4>1. SelectedBuffer(l) \in Indexes
        BY <1>f, <2>4, SelectedInIndexes
      <4>2. CASE hwFront[l] = NoIndex
        BY <4>1, <4>2 DEF Indexes, NoIndex
      <4>3. CASE hwFront[l] # NoIndex
        <5>1. hwFront[l] \in Indexes
          BY <4>3, <2>4, <1>f DEF CopyTypes, Indexes, NoIndex
        <5>2. SelectedBuffer(l) = 1 - hwFront[l]
          BY <4>3, <2>4, <3>1 DEF SelectedBuffer
        <5> QED BY <5>1, <5>2 DEF Indexes
      <4> QED BY <4>2, <4>3
    <3>3. m.index = hwFront[l] \/ l \in stranded
      BY <1>1, <2>2, <2>4, <3>1 DEF NativeInv, OverlayPlanes
    <3> QED BY <2>2, <3>2, <3>3 DEF LeftBehind
  <2> QED BY <1>f, <2>3, <2>4
<1> QED BY <1>4, <1>5, <1>6

(***************************************************************************)
(* No path writes a buffer that is shown, except that of an overlay whose  *)
(* front index a present has moved before it failed on every path.  Those  *)
(* of the list submitted last are front buffers, an overlay that a path    *)
(* has built is clean and is not built again by the next path, and on the  *)
(* Pi 4 SynchronizePreviousPresent makes the scanned list that list.  For  *)
(* any number of layers and presents.                                      *)
(***************************************************************************)
THEOREM ShownBuffersAreKept == NativeSpec => []ShownBuffersKept
<1>1. NativeInv => ShownBuffersKept
  <2> SUFFICES ASSUME NativeInv PROVE ShownBuffersKept
    OBVIOUS
  <2>1. board # "Firmware" => \A m \in MemoryOf(submittedPlanes) \cap Targets : LeftBehind(m)
    BY TargetsBehind
  <2>2. ASSUME board = "Pi4", NEW m \in scannedMemory \cap Targets PROVE LeftBehind(m)
    <3>1. path \in {"V3d", "Direct", "Software"}
      <4> SUFFICES ASSUME path # "V3d", path # "Direct", path # "Software" PROVE FALSE
        OBVIOUS
      <4>1. Targets = {}
        BY DEF Targets
      <4> QED BY <2>2, <4>1
    <3>2. scannedMemory = MemoryOf(submittedPlanes)
      BY <2>2, <3>1 DEF NativeInv, PlanesInv, FencePasses
    <3> QED BY <2>1, <2>2, <3>2
  <2> QED BY <2>1, <2>2 DEF ShownBuffersKept
<1> QED BY <1>1, NativeInitInv, NativeInvStep, PTL DEF NativeSpec
==============================================================================
