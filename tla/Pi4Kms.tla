------------------------------- MODULE Pi4Kms -------------------------------
(***************************************************************************)
(* The takeover of the Pi 4 display (pi4kms/pi4_kms.cpp and                *)
(* pi4kms/pi4_kms_lifecycle.h).  The firmware scans out its own display    *)
(* list until the first native frame: the driver saves that list, tells    *)
(* the firmware to stop, writes a list of its own into one of two slots of *)
(* the HVS list memory, restarts the output pipeline, and commits as soon  *)
(* as it has seen its list in the active register.  Until then everything  *)
(* can be undone; afterwards nothing can, and a failure holds the last     *)
(* frame.  A later frame goes to the slot that is not scanned, after a     *)
(* fence on the one submitted before.                                      *)
(*                                                                         *)
(* The module has the driver's globals, the registers of the hardware it   *)
(* relies on, and one operator per step of PresentPlanes and               *)
(* RestoreFirmwareScanout; Pi4Layers runs the steps in the code's order.   *)
(***************************************************************************)
EXTENDS Naturals

CONSTANT
  Plans           \* what ConfigureNativeMode may have left behind

\* "none": no native mode; "same": one of the firmware's size; "changed": one
\* of another size.
ASSUME PlansAssumption == Plans \subseteq {"none", "same", "changed"}

VARIABLES
  requested,         \* g_takeover_requested, with a usable probe
  plan,              \* g_native_mode_plan against g_probe_info
  claimed,           \* RecoveryLifecycle: the firmware has stopped its display
  committed,         \* RecoveryLifecycle: no way back
  takeoverActive,
  takeoverFailed,
  nativeModeActive,  \* g_native_mode_active; only read until the commit
  nativeModeFailed,
  saved,             \* g_firmware_dlist_saved and the pipeline snapshot
  submitted,         \* g_submitted_slot
  template,          \* g_dlist_templates
  list,              \* the list memory of the two ARM slots
  pending,           \* HVS register: the list to be shown from the next VBlank
  active,            \* HVS register: the list that is scanned
  running,           \* the HVS channel and the pixel valve run
  timing,            \* the mode that pixel valve, HDMI and PHY are set to
  clocks,            \* the mode whose rates the pixel, M2MC and BVB clocks have;
                     \* after the commit both stay and are not followed
  restoreFailed      \* history: a restore gave up half way

driverVars == <<requested, plan, claimed, committed, takeoverActive, takeoverFailed,
                nativeModeActive, nativeModeFailed, saved, submitted, template,
                restoreFailed>>
hardwareVars == <<list, pending, active, running, timing, clocks>>
kmsVars == <<driverVars, hardwareVars>>

ListSlots == 0..1
FirmwareList == 2        \* the place of the firmware's own list
Timings == {"firmware", "native", "kept"}
ClockRates == {"firmware", "native", "mixed"}

\* What PresentPlanes is given, abstracted to what the driver tells apart: the
\* layout (sizes, places, formats and filters of the planes), of which there is
\* one with and one without an overlay, and the buffers to scan.
Layouts == {"vic", "vic+overlay"}
Buffers == {"v0", "v1", "ui0", "ui1"}
Planes == [layout : Layouts, bufs : SUBSET Buffers]
NoLayout == "none"
NoList == [layout |-> NoLayout, bufs |-> {}]
Torn == [layout |-> NoLayout, bufs |-> Buffers]

KmsTypeOK ==
  /\ requested \in BOOLEAN /\ plan \in Plans \cup {"none"}
  /\ claimed \in BOOLEAN /\ committed \in BOOLEAN
  /\ takeoverActive \in BOOLEAN /\ takeoverFailed \in BOOLEAN
  /\ nativeModeActive \in BOOLEAN /\ nativeModeFailed \in BOOLEAN
  /\ saved \in BOOLEAN /\ restoreFailed \in BOOLEAN
  /\ submitted \in ListSlots
  /\ template \in [ListSlots -> Layouts \cup {NoLayout}]
  /\ list \in [ListSlots -> Planes \cup {NoList, Torn}]
  /\ pending \in ListSlots \cup {FirmwareList} /\ active \in ListSlots \cup {FirmwareList}
  /\ running \in BOOLEAN /\ timing \in Timings /\ clocks \in Timings \cup ClockRates

\* ConfigureTakeover: the takeover is armed, or refused because the firmware's
\* clocks cannot be saved although they will be changed.
KmsInit ==
  /\ requested \in BOOLEAN
  /\ plan \in IF requested THEN Plans ELSE {"none"}
  /\ takeoverFailed \in IF requested /\ plan = "changed" THEN BOOLEAN ELSE {FALSE}
  /\ claimed = FALSE /\ committed = FALSE
  /\ takeoverActive = FALSE
  /\ nativeModeActive = FALSE /\ nativeModeFailed = FALSE /\ saved = FALSE /\ restoreFailed = FALSE
  /\ submitted = 0
  /\ template = [s \in ListSlots |-> NoLayout]
  /\ list = [s \in ListSlots |-> NoList]
  /\ pending = FirmwareList /\ active = FirmwareList
  /\ running = TRUE /\ timing = "firmware" /\ clocks = "firmware"

TakeoverReady == requested /\ ~takeoverFailed

\* The output mode a native present asks for (none: native_plan is 0), and
\* whether a list has the size of the mode the pipeline is set to.
NativePlan == plan # "none" /\ ~nativeModeFailed
Fits(l, t) == plan # "changed" \/ ((l = FirmwareList) <=> (t = "firmware"))

---------------------------------------------------------------------------
(* The hardware.                                                            *)

\* At the start of a frame the channel takes over the pending list.  What the
\* list memory holds where neither register points is of no interest.
VBlank ==
  /\ running
  /\ pending # active
  /\ active' = pending
  /\ list' = [s \in ListSlots |-> IF s = pending THEN list[s] ELSE NoList]
  /\ UNCHANGED <<driverVars, pending, running, timing, clocks>>

\* ProgramNativeModeClocks, for a native plan of any size; with the firmware's mode
\* the clocks are left as they are.
ClocksFor(t) == IF t = "native" THEN "native" ELSE clocks

\* RestartDisplayPipeline(t): the clocks, then HDMI, PHY, pixel valve and HVS
\* channel are stopped, programmed for mode t and started again.
RestartWorks(t) ==
  /\ running' = TRUE /\ timing' = t /\ clocks' = ClocksFor(t)
  /\ UNCHANGED active

\* It may give up before the pipeline is touched, because there is no snapshot or
\* one of the three clocks cannot be set, or find afterwards that one of the parts
\* has not come back.
RestartFails(t) ==
  /\ UNCHANGED active
  /\ \/ /\ UNCHANGED <<running, timing>>
        /\ clocks' \in IF t = "native" THEN ClockRates ELSE {clocks}
     \/ running' \in BOOLEAN /\ timing' = t /\ clocks' = ClocksFor(t)

---------------------------------------------------------------------------
(* The steps of PresentPlanes.                                              *)

\* Mutant: always the slot of the list submitted last.
SlotIndexSubmitted == submitted

\* The slot of the next list.
SlotIndex == IF takeoverActive THEN 1 - submitted ELSE 0

MatchesDlistTemplate(s, p) == template[s] = p.layout

\* A slot's list is built anew unless its template has the same layout; then
\* only the addresses are patched, so a template is no more than its layout.
FillTemplate(s, p) ==
  template' = [template EXCEPT ![s] = IF MatchesDlistTemplate(s, p) THEN @ ELSE p.layout]

\* CaptureActiveFirmwareDlist: the firmware's list is between two frames, or
\* cannot be read: the takeover waits for a later frame.
CaptureDeferred ==
  /\ ~committed /\ ~saved
  /\ UNCHANGED <<requested, plan, claimed, committed, takeoverActive, takeoverFailed,
                 nativeModeActive, nativeModeFailed, saved, submitted, template,
                 restoreFailed, hardwareVars>>

Captured ==
  /\ saved' = (saved \/ ~committed)
  /\ UNCHANGED <<requested, plan, claimed, committed, takeoverActive, takeoverFailed,
                 nativeModeActive, nativeModeFailed, submitted, template, restoreFailed, hardwareVars>>

\* NotifyFirmwareDisplayDone: the firmware parks the channel at the end of the
\* frame.
NotifyFirmwareDisplayDone ==
  /\ claimed' = TRUE
  /\ running' = (claimed /\ running)
  /\ UNCHANGED <<requested, plan, committed, takeoverActive, takeoverFailed,
                 nativeModeActive, nativeModeFailed, saved, submitted, template,
                 restoreFailed, list, pending, active, timing, clocks>>

\* Every error after the firmware has been asked latches takeoverFailed; the
\* templates are not used again and are forgotten here.
TakeoverFails ==
  /\ takeoverFailed' = TRUE
  /\ template' = [s \in ListSlots |-> NoLayout]
  /\ UNCHANGED <<requested, plan, claimed, committed, takeoverActive,
                 nativeModeActive, nativeModeFailed, saved, submitted, restoreFailed>>

\* SynchronizePreviousPresent: the list submitted last has become active.
MustWait(wait) == wait /\ committed
FencePassed(wait) == MustWait(wait) => active = submitted
FenceTimeout(wait) == MustWait(wait) /\ active # submitted

\* WriteAndVerifyDlist: while the words are written the list is neither the old
\* nor the new one.
BeginWrite(s) ==
  /\ list' = [list EXCEPT ![s] = Torn]
  /\ UNCHANGED <<driverVars, pending, active, running, timing, clocks>>

EndWrite(s, bufs) ==
  /\ list' = [list EXCEPT ![s] = [layout |-> template[s], bufs |-> bufs]]
  /\ pending' = s
  /\ UNCHANGED <<driverVars, active, running, timing, clocks>>

\* The pipeline comes up in the mode of the plan.
RestartForArm ==
  /\ ~takeoverActive
  /\ RestartWorks(IF NativePlan THEN "native" ELSE "firmware")
  /\ nativeModeActive' = NativePlan
  /\ UNCHANGED <<requested, plan, claimed, committed, takeoverActive, takeoverFailed,
                 nativeModeFailed, saved, submitted, template, restoreFailed,
                 list, pending>>

\* A native mode of the firmware's size has failed: its list can be shown with
\* the firmware's timing instead.  RestoreFirmwareClockRates is not called for
\* this size, so the clocks are as the failed restart has left them.
FallbackAllowed == NativePlan /\ plan = "same"

RestartFallback ==
  /\ ~takeoverActive /\ FallbackAllowed
  /\ nativeModeFailed' = TRUE /\ nativeModeActive' = FALSE
  /\ running' = TRUE /\ timing' = "firmware" /\ clocks' \in ClockRates
  /\ UNCHANGED <<requested, plan, claimed, committed, takeoverActive, takeoverFailed,
                 saved, submitted, template, restoreFailed, list, pending, active>>

\* Nothing brings the pipeline up, or a list of another size must not be shown
\* with the firmware's timing.
RestartRefused ==
  /\ ~takeoverActive
  /\ takeoverFailed' = TRUE
  /\ template' = [s \in ListSlots |-> NoLayout]
  /\ nativeModeFailed' = (nativeModeFailed \/ NativePlan)
  /\ \/ RestartFails(IF NativePlan THEN "native" ELSE "firmware")
     \/ /\ FallbackAllowed
        /\ running' \in BOOLEAN /\ timing' = "firmware" /\ clocks' \in ClockRates
        /\ UNCHANGED active
  /\ UNCHANGED <<requested, plan, claimed, committed, takeoverActive, nativeModeActive,
                 saved, submitted, restoreFailed, list, pending>>

\* The first ARM list has to be seen in the active register.
FirstListActive(s) == ~committed => (running /\ active = s)

\* The frame is submitted; the first one commits and the firmware's list, its
\* registers and clocks are forgotten.  The plan is not asked for again.
Commit(s) ==
  /\ takeoverActive' = TRUE
  /\ submitted' = s
  /\ committed' = (committed \/ claimed)
  /\ saved' = (saved /\ ~claimed)
  /\ plan' = "none" /\ nativeModeActive' = FALSE /\ nativeModeFailed' = FALSE
  /\ timing' = IF committed' THEN "kept" ELSE timing
  /\ clocks' = IF committed' THEN "kept" ELSE clocks
  /\ UNCHANGED <<requested, claimed, takeoverFailed, template, restoreFailed,
                 list, pending, active, running>>

---------------------------------------------------------------------------
(* RestoreFirmwareScanout.                                                  *)

\* Mutant: only a native mode that has come up has changed the clocks.
ClocksToRestoreActive == plan = "changed" /\ nativeModeActive

\* Only a native mode of another size has its clocks undone, whether it came up or
\* failed: for the others the firmware's rates have not been saved.
ClocksToRestore == plan = "changed" /\ (nativeModeActive \/ nativeModeFailed)

\* The firmware's list is in its place and pending, after RestoreFirmwareClockRates
\* where that is called.
RestoreList ==
  /\ saved
  /\ clocks' = IF ClocksToRestore THEN "firmware" ELSE clocks
  /\ pending' = FirmwareList
  /\ UNCHANGED <<driverVars, list, active, running, timing>>

\* The pipeline runs with the firmware's timing.
RestoreRestart ==
  /\ RestartWorks("firmware")
  /\ UNCHANGED <<driverVars, list, pending>>

\* Mutant: it is enough that the pipeline runs.
RestoredUnseen == running

\* The firmware's list is scanned again.
Restored == running /\ active = FirmwareList

RestoreDone ==
  /\ Restored
  /\ takeoverActive' = FALSE /\ nativeModeActive' = FALSE
  /\ list' = [s \in ListSlots |-> NoList]
  /\ UNCHANGED <<requested, plan, claimed, committed, takeoverFailed, nativeModeFailed,
                 saved, submitted, template, restoreFailed, pending, active, running,
                 timing, clocks>>

\* A clock, the list or the pipeline cannot be restored, or the list does not
\* become active in time.  What the screen shows then is not followed further.
RestoreGivesUp ==
  /\ takeoverActive' = FALSE /\ nativeModeActive' = FALSE
  /\ takeoverFailed' = TRUE
  /\ restoreFailed' = TRUE
  /\ running' = FALSE /\ timing' = "firmware" /\ clocks' = "firmware"
  /\ active' = FirmwareList /\ pending' = FirmwareList
  /\ list' = [s \in ListSlots |-> NoList]
  /\ UNCHANGED <<requested, plan, claimed, committed, nativeModeFailed,
                 saved, submitted, template>>
=============================================================================
