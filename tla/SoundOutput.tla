----------------------------- MODULE SoundOutput ----------------------------
(***************************************************************************)
(* The choice of the sound device (vicesound.cpp, kernel.cpp).  Core 0     *)
(* notices USB devices come and go, core 1 plays, and restarts the output  *)
(* when core 0 has told it to.  A device may be exchanged for one with     *)
(* another sample rate at any moment between core 1's looks at it.         *)
(*                                                                         *)
(* The USB output is the sample rate ViceSound::SelectSampleRate takes for *)
(* it, or NoUsb.  Volume, channels, samples and statistics are left out.   *)
(***************************************************************************)
EXTENDS Naturals

CONSTANTS
  Rates,          \* sample rates USB devices have
  DefaultRate,    \* SAMPLE_RATE
  NoUsb,
  MaxChanges      \* bound: changes of the USB topology

ASSUME SoundAssumption ==
  /\ DefaultRate \in Nat /\ Rates \subseteq Nat
  /\ NoUsb \notin Rates \cup {DefaultRate}
  /\ MaxChanges \in Nat

VARIABLES
  usb,                                          \* the USB output there is
  changes,
  usbTask,                                      \* core 0: UpdateUSBPlugAndPlay
  mUSBOutputAvailable, mUSBAudioChangePending,
  coresComplete,                                \* mNumCoresComplete >= 2
  vice,                                         \* core 1
  available,                                    \* its local usb_output_available
  mViceSound, mNeedSoundInit,
  mOutputDevice, active, mSampleRate,           \* ViceSound
  mSoundOutputPriority, mSoundSampleRate,
  soundStateChanged,                            \* VICE: reopen the sound
  missed                                        \* history: the output could not be what
                                                \* the priority asks for

usbVars == <<usb, changes, usbTask, mUSBOutputAvailable>>
playVars == <<mOutputDevice, active, mSampleRate>>
soundVars == <<usbVars, playVars, mUSBAudioChangePending, coresComplete, vice, available,
               mViceSound, mNeedSoundInit, mSoundOutputPriority, mSoundSampleRate,
               soundStateChanged, missed>>

SoundInit ==
  /\ usb \in Rates \cup {NoUsb} /\ changes = 0 /\ usbTask = "Idle"
  /\ mUSBOutputAvailable = FALSE /\ mUSBAudioChangePending = FALSE
  /\ coresComplete = FALSE
  /\ vice = "Idle" /\ available = FALSE
  /\ mViceSound = FALSE /\ mNeedSoundInit = FALSE
  /\ mOutputDevice = "none" /\ active = FALSE /\ mSampleRate = DefaultRate
  /\ mSoundOutputPriority \in {"usb", "hdmi"}
  /\ mSoundSampleRate = DefaultRate
  /\ soundStateChanged = TRUE        \* VICE opens the sound at its start
  /\ missed = FALSE

SelectSampleRate == IF usb = NoUsb THEN DefaultRate ELSE usb

---------------------------------------------------------------------------
(* ViceSound.                                                               *)

\* A USB device starts at a rate it has, or refuses.
UsbStarts(rate) == {usb = rate, FALSE}

\* Playback: the old output is cancelled and the devices are tried in the order
\* of the priority.
Playback(priority, rate) ==
  \E usbOk \in UsbStarts(rate), hdmiOk \in BOOLEAN :
    /\ mOutputDevice' =
         IF priority = "usb" /\ usbOk THEN "usb"
         ELSE IF hdmiOk THEN "hdmi" ELSE IF usbOk THEN "usb" ELSE "none"
    /\ active' = (mOutputDevice' # "none")
    /\ missed' = (~hdmiOk \/ (usb # NoUsb /\ ~usbOk))

\* Mutant: a USB output that is selected is left alone while there is one.
KeepsSelected ==
  \/ mOutputDevice = "usb" /\ available
  \/ mOutputDevice = "hdmi" /\ active /\ (mSoundOutputPriority = "hdmi" \/ ~available)

\* USBPlugAndPlayChanged: when the output goes on.
Keeps ==
  /\ active
  /\ \/ mOutputDevice = "usb" /\ available
     \/ mOutputDevice = "hdmi" /\ (mSoundOutputPriority = "hdmi" \/ ~available)

---------------------------------------------------------------------------
(* Core 0.                                                                  *)

\* Circle's UpdatePlugAndPlay: a device comes, goes or is exchanged.  The output
\* that played on it is inactive.
UsbChanges ==
  /\ usbTask = "Idle" /\ changes < MaxChanges
  /\ changes' = changes + 1
  /\ \/ usb = NoUsb /\ usb' \in Rates /\ UNCHANGED active
     \/ usb # NoUsb /\ usb' = NoUsb /\ active' = (active /\ mOutputDevice # "usb")
  /\ usbTask' = "Scan"
  /\ UNCHANGED <<mUSBOutputAvailable, mOutputDevice, mSampleRate, mUSBAudioChangePending,
                 coresComplete, vice, available, mViceSound, mNeedSoundInit,
                 mSoundOutputPriority, mSoundSampleRate, soundStateChanged, missed>>

\* SetupUSBGamepads publishes what there is ...
ScanUsb ==
  /\ usbTask = "Scan" /\ usbTask' = "Tell"
  /\ mUSBOutputAvailable' = (usb # NoUsb)
  /\ UNCHANGED <<usb, changes, playVars, mUSBAudioChangePending, coresComplete, vice,
                 available, mViceSound, mNeedSoundInit, mSoundOutputPriority,
                 mSoundSampleRate, soundStateChanged, missed>>

\* Mutant: ... but the word is not given.
TellNothing == FALSE

\* The word to core 1.
Told == TRUE

\* ... and UpdateUSBPlugAndPlay tells core 1.
TellUsbChange ==
  /\ usbTask = "Tell" /\ usbTask' = "Idle"
  /\ mUSBAudioChangePending' = Told
  /\ UNCHANGED <<usb, changes, mUSBOutputAvailable, playVars, coresComplete, vice,
                 available, mViceSound, mNeedSoundInit, mSoundOutputPriority,
                 mSoundSampleRate, soundStateChanged, missed>>

\* The other cores have built their tables.
CoreComplete ==
  /\ ~coresComplete /\ coresComplete' = TRUE
  /\ UNCHANGED <<usbVars, playVars, mUSBAudioChangePending, vice, available, mViceSound,
                 mNeedSoundInit, mSoundOutputPriority, mSoundSampleRate, soundStateChanged,
                 missed>>

---------------------------------------------------------------------------
(* Core 1.                                                                  *)

\* ApplyUSBAudioChange, from every write of samples and every yield.
ApplyUSBAudioChange ==
  /\ vice = "Idle" /\ mUSBAudioChangePending
  /\ mUSBAudioChangePending' = FALSE
  /\ vice' = IF mViceSound THEN "Load" ELSE "Idle"
  /\ UNCHANGED <<usbVars, playVars, coresComplete, available, mViceSound, mNeedSoundInit,
                 mSoundOutputPriority, mSoundSampleRate, soundStateChanged, missed>>

LoadAvailable ==
  /\ vice = "Load" /\ vice' = "Decide"
  /\ available' = mUSBOutputAvailable
  /\ UNCHANGED <<usbVars, playVars, mUSBAudioChangePending, coresComplete, mViceSound,
                 mNeedSoundInit, mSoundOutputPriority, mSoundSampleRate, soundStateChanged,
                 missed>>

\* Another sample rate: VICE is asked to open the sound again.
ChangeSampleRate ==
  /\ vice = "Decide" /\ SelectSampleRate # mSoundSampleRate
  /\ vice' = "Idle" /\ soundStateChanged' = TRUE
  /\ UNCHANGED <<usbVars, playVars, mUSBAudioChangePending, coresComplete, available,
                 mViceSound, mNeedSoundInit, mSoundOutputPriority, mSoundSampleRate,
                 missed>>

SameSampleRate ==
  /\ vice = "Decide" /\ SelectSampleRate = mSoundSampleRate
  /\ vice' = "Change"
  /\ UNCHANGED <<usbVars, playVars, mUSBAudioChangePending, coresComplete, available,
                 mViceSound, mNeedSoundInit, mSoundOutputPriority, mSoundSampleRate,
                 soundStateChanged, missed>>

\* USBPlugAndPlayChanged.
USBPlugAndPlayChanged ==
  /\ vice = "Change" /\ vice' = "Idle"
  /\ IF Keeps THEN UNCHANGED <<mOutputDevice, active, missed>>
     ELSE Playback(IF available THEN mSoundOutputPriority ELSE "hdmi", mSampleRate)
  /\ UNCHANGED <<usbVars, mSampleRate, mUSBAudioChangePending, coresComplete, available,
                 mViceSound, mNeedSoundInit, mSoundOutputPriority, mSoundSampleRate,
                 soundStateChanged>>

\* circle_sound_init, when VICE opens the sound (again).
SoundOpens ==
  /\ vice = "Idle" /\ soundStateChanged
  /\ soundStateChanged' = FALSE
  /\ mSoundSampleRate' = SelectSampleRate
  /\ vice' = IF mViceSound THEN "Restart" ELSE "Idle"
  /\ UNCHANGED <<usbVars, playVars, mUSBAudioChangePending, coresComplete, available,
                 mViceSound, mNeedSoundInit, mSoundOutputPriority, missed>>

SoundRestarts ==
  /\ vice = "Restart" /\ vice' = "Idle"
  /\ mSampleRate' = mSoundSampleRate
  /\ Playback(mSoundOutputPriority, mSoundSampleRate)
  /\ UNCHANGED <<usbVars, mUSBAudioChangePending, coresComplete, available, mViceSound,
                 mNeedSoundInit, mSoundOutputPriority, mSoundSampleRate, soundStateChanged>>

\* A ViceSound is made, once the helper cores are ready.
MakeSound ==
  /\ mViceSound' = TRUE
  /\ mSampleRate' = mSoundSampleRate
  /\ Playback(mSoundOutputPriority, mSoundSampleRate)

\* circle_boot_complete.
BootComplete ==
  /\ vice = "Idle" /\ ~mViceSound /\ ~soundStateChanged
  /\ IF coresComplete THEN MakeSound /\ UNCHANGED mNeedSoundInit
     ELSE mNeedSoundInit' = TRUE /\ UNCHANGED <<mViceSound, playVars, missed>>
  /\ UNCHANGED <<usbVars, mUSBAudioChangePending, coresComplete, vice, available,
                 mSoundOutputPriority, mSoundSampleRate, soundStateChanged>>

\* circle_check_gpio makes up for it.
LateSoundInit ==
  /\ vice = "Idle" /\ mNeedSoundInit /\ coresComplete
  /\ MakeSound
  /\ mNeedSoundInit' = FALSE
  /\ UNCHANGED <<usbVars, mUSBAudioChangePending, coresComplete, vice, available,
                 mSoundOutputPriority, mSoundSampleRate, soundStateChanged>>

\* The menu: the output stays until it is restarted for another reason.
SetPriority ==
  /\ vice = "Idle"
  /\ mSoundOutputPriority' \in {"usb", "hdmi"} \ {mSoundOutputPriority}
  /\ missed' = TRUE
  /\ UNCHANGED <<usbVars, playVars, mUSBAudioChangePending, coresComplete, vice, available,
                 mViceSound, mNeedSoundInit, mSoundSampleRate, soundStateChanged>>

UsbTask == ScanUsb \/ TellUsbChange
ViceCore ==
  \/ ApplyUSBAudioChange \/ LoadAvailable \/ ChangeSampleRate \/ SameSampleRate
  \/ USBPlugAndPlayChanged \/ SoundOpens \/ SoundRestarts

SoundNext ==
  \/ UsbChanges \/ UsbTask \/ CoreComplete
  \/ ViceCore \/ BootComplete \/ LateSoundInit \/ SetPriority

SoundSpec == SoundInit /\ [][SoundNext]_soundVars
SoundFairness == WF_soundVars(UsbTask) /\ WF_soundVars(ViceCore)
SoundFairSpec == SoundSpec /\ SoundFairness

---------------------------------------------------------------------------
(* Properties.                                                              *)

\* Nothing is under way that would change the output.
SoundSettled ==
  usbTask = "Idle" /\ ~mUSBAudioChangePending /\ vice = "Idle" /\ ~soundStateChanged

\* Playback and USBPlugAndPlayChanged: when all is settled the sound comes from
\* the device the priority asks for, however often USB devices were exchanged
\* while core 1 looked at them; unless a device refused to start (also for a rate
\* chosen before it was there) or the priority was changed since.
PriorityKept ==
  SoundSettled /\ mViceSound /\ ~missed =>
    /\ active
    /\ mOutputDevice = IF mSoundOutputPriority = "usb" /\ usb # NoUsb THEN "usb" ELSE "hdmi"

\* A USB output that was removed is noticed: the sound moves to another device,
\* or stops, or the output comes back.
RemovalNoticed == mOutputDevice = "usb" /\ usb = NoUsb ~> active \/ mOutputDevice # "usb"
=============================================================================
