----------------------------- MODULE CoresProofs -----------------------------
(***************************************************************************)
(* Proofs about the three cores (Cores) and the choice of the sound device *)
(* (SoundOutput): the mailbox of core 0 implements a remote call, the SID  *)
(* job has one owner, and the sound comes from the device the priority     *)
(* asks for.                                                               *)
(***************************************************************************)
EXTENDS Cores, SoundOutput, TLAPS

---------------------------------------------------------------------------
(* Core0Mailbox.                                                            *)

\* The mailbox is idle exactly while core 1 is outside; inside, the command is
\* the one core 1 gave, core 0 works only on a pending one, and an answer that is
\* ready to be published or has been is the command's.
Core0Inv ==
  /\ Core0TypeOK
  /\ (caller = "Running") <=> (mState = "Idle")
  /\ (caller = "Running") <=> (requested = NoCore0Request)
  /\ (requested # NoCore0Request) => (mCore0Request.command = requested)
  /\ (core0 \in {"Execute", "Complete"}) => (mState = "Pending")
  /\ (core0 = "Complete" \/ mState = "Completed") => (mCore0Request.result = mCore0Request.command)

LEMMA Core0Initially == Core0Init => Core0Inv
BY Core0Assumption DEF Core0Init, Core0Inv, Core0TypeOK

\* Every step of the mailbox keeps Core0Inv.
LEMMA Core0Step == Core0Inv /\ Core0Next => Core0Inv'
<1> SUFFICES ASSUME Core0Inv, Core0Next PROVE Core0Inv'
  OBVIOUS
<1> USE Core0Assumption DEF Core0Inv, Core0TypeOK
<1>1. ASSUME NEW r \in Core0Requests, Request(r) PROVE Core0Inv'
  BY <1>1 DEF Request, IsIdle
<1>2. CASE SignalRequest
  BY <1>2 DEF SignalRequest
<1>3. CASE CheckFails
  BY <1>3 DEF CheckFails
<1>4. CASE WaitForSignal
  BY <1>4 DEF WaitForSignal
<1>5. CASE CheckSucceeds
  BY <1>5 DEF CheckSucceeds
<1>6. CASE ProcessCore0Request
  BY <1>6 DEF ProcessCore0Request, HasPendingRequest
<1>7. CASE Execute
  BY <1>7 DEF Execute
<1>8. CASE CompleteRequest
  BY <1>8 DEF CompleteRequest, Completes, HasPendingRequest
<1>9. CASE SignalCompletion
  BY <1>9 DEF SignalCompletion
<1>10. QED
  BY <1>1, <1>2, <1>3, <1>4, <1>5, <1>6, <1>7, <1>8, <1>9 DEF Core0Next, Waiting, Core0Loop

LEMMA Core0Stutters == Core0Inv /\ UNCHANGED core0Vars => Core0Inv'
BY DEF Core0Inv, Core0TypeOK, core0Vars

\* A step of the mailbox is a step of the remote call, or none of it.
LEMMA Core0Implements == Core0Inv /\ Core0Next => [Remote!CallNext]_(Remote!callVars)
<1> SUFFICES ASSUME Core0Inv, Core0Next PROVE [Remote!CallNext]_(Remote!callVars)
  OBVIOUS
<1> USE Core0Assumption DEF Core0Inv, Core0TypeOK, Remote!callVars
<1>1. ASSUME NEW r \in Core0Requests, Request(r) PROVE Remote!Call(r)
  BY <1>1 DEF Request, IsIdle, Remote!Call
<1>2. CASE SignalRequest
  BY <1>2 DEF SignalRequest
<1>3. CASE CheckFails
  BY <1>3 DEF CheckFails
<1>4. CASE WaitForSignal
  BY <1>4 DEF WaitForSignal
<1>5. CASE CheckSucceeds
  <2>1. Remote!ReturnFromCall
    BY <1>5 DEF CheckSucceeds, Remote!ReturnFromCall
  <2>2. QED
    BY <2>1 DEF Remote!CallNext
<1>6. CASE ProcessCore0Request
  BY <1>6 DEF ProcessCore0Request, HasPendingRequest
<1>7. CASE Execute
  BY <1>7 DEF Execute
<1>8. CASE CompleteRequest
  <2>1. Remote!Execute
    BY <1>8 DEF CompleteRequest, Completes, HasPendingRequest, Remote!Execute
  <2>2. QED
    BY <2>1 DEF Remote!CallNext
<1>9. CASE SignalCompletion
  BY <1>9 DEF SignalCompletion
<1>10. QED
  BY <1>1, <1>2, <1>3, <1>4, <1>5, <1>6, <1>7, <1>8, <1>9
     DEF Core0Next, Waiting, Core0Loop, Remote!CallNext

\* core0_mailbox.h, kernel.cpp: whatever events other cores send, a call through the
\* mailbox is carried out once, with its own arguments, and core 1 leaves it with
\* its own result.
THEOREM MailboxIsRemoteCall == Core0Spec => IsRemoteCall
<1>1. Core0Init => Remote!CallInit
  BY DEF Core0Init, Remote!CallInit
<1>2. Core0Inv /\ [Core0Next \/ (SEV /\ UNCHANGED core0Vars)]_<<core0Vars, event>> => Core0Inv'
  BY Core0Step, Core0Stutters
<1>3. Core0Inv /\ [Core0Next \/ (SEV /\ UNCHANGED core0Vars)]_<<core0Vars, event>>
        => [Remote!CallNext]_(Remote!callVars)
  BY Core0Implements DEF core0Vars, Remote!callVars
<1>4. QED
  BY <1>1, <1>2, <1>3, Core0Initially, PTL DEF Core0Spec, IsRemoteCall, Remote!RemoteCallSpec

---------------------------------------------------------------------------
(* SidWorker.                                                               *)

\* Where the accepted job is.
Filling == core1 \in {"Fill", "Post"}
InFlight == InRequest \/ InWorker \/ InDone \/ InWait

\* The busy flag covers a submit and the job it has posted; the job is in at most
\* one place, its arguments stay those that were posted, and the result is theirs
\* once core 2 has stored it.
SidInv ==
  /\ SidTypeOK
  /\ g_busy <=> (Filling \/ outstanding # NoJob)
  /\ Filling => job # NoJob /\ outstanding = NoJob
  /\ (core1 = "Post") => (g_job.args = job)
  /\ InFlight <=> (outstanding # NoJob)
  /\ ~(InRequest /\ InWorker) /\ ~(InRequest /\ InDone) /\ ~(InRequest /\ InWait)
  /\ ~(InWorker /\ InDone) /\ ~(InWorker /\ InWait) /\ ~(InDone /\ InWait)
  /\ (outstanding # NoJob) => (g_job.args = outstanding)
  /\ (core2 = "Store") => (working = outstanding)
  /\ (core2 = "Done" \/ InDone \/ InWait) => (g_job.result = outstanding)
  /\ (core1 = "Release") => (collected = outstanding)

LEMMA SidInitially == SidInit => SidInv
<1> SUFFICES ASSUME SidInit PROVE SidInv
  OBVIOUS
<1>1. SidTypeOK
  <2>1. g_job \in [args : MaybeJobs, result : MaybeJobs]
    BY DEF SidInit, MaybeJobs
  <2>2. g_ready \in BOOLEAN /\ g_busy \in BOOLEAN
    BY DEF SidInit
  <2>3. g_request \in 0..1 /\ g_done \in 0..1
    BY DEF SidInit
  <2>4. /\ core1 \in {"Mix", "Fill", "Post", "WaitDone", "WaitEvent", "Collect", "Release"}
        /\ core2 \in {"Start", "Wait", "Event", "Calculate", "Store", "Done"}
    BY DEF SidInit
  <2>5. job \in MaybeJobs /\ working \in MaybeJobs /\ outstanding \in MaybeJobs
        /\ collected \in MaybeJobs
    BY DEF SidInit, MaybeJobs
  <2>6. QED
    BY <2>1, <2>2, <2>3, <2>4, <2>5 DEF SidTypeOK
<1>2. ~InRequest /\ ~InWorker /\ ~InDone /\ ~InWait /\ ~Filling
  BY DEF SidInit, InRequest, InWorker, InDone, InWait, Filling
<1>3. QED
  BY <1>1, <1>2 DEF SidInit, SidInv, InFlight

\* Every step of the two cores keeps SidInv.
LEMMA SidStep == SidInv /\ SidNext => SidInv'
<1> SUFFICES ASSUME SidInv, SidNext PROVE SidInv'
  OBVIOUS
<1> USE SidJobsAssumption
    DEF SidInv, SidTypeOK, MaybeJobs, Filling, InFlight, InRequest, InWorker, InDone, InWait
<1>1. ASSUME NEW j \in SidJobs, Submit(j) PROVE SidInv'
  BY <1>1 DEF Submit, MayExchange
<1>2. CASE SubmitRefused
  BY <1>2 DEF SubmitRefused, sidVars
<1>3. CASE Wait
  BY <1>3 DEF Wait
<1>4. CASE SubmitFill
  BY <1>4 DEF SubmitFill
<1>5. CASE SubmitPost
  BY <1>5 DEF SubmitPost, sem_inc
<1>6. CASE WaitDone
  BY <1>6 DEF WaitDone, sem_dec
<1>7. CASE WaitSleeps
  BY <1>7 DEF WaitSleeps
<1>8. CASE WaitWakes
  BY <1>8 DEF WaitWakes
<1>9. CASE Collect
  BY <1>9 DEF Collect
<1>10. CASE WaitRelease
  BY <1>10 DEF WaitRelease
<1>11. CASE WorkerReady
  BY <1>11 DEF WorkerReady
<1>12. CASE WorkerTakes
  BY <1>12 DEF WorkerTakes, sem_dec
<1>13. CASE WorkerSleeps
  BY <1>13 DEF WorkerSleeps
<1>14. CASE WorkerWakes
  BY <1>14 DEF WorkerWakes
<1>15. CASE WorkerCalculates
  BY <1>15 DEF WorkerCalculates
<1>16. CASE WorkerStores
  BY <1>16 DEF WorkerStores
<1>17. CASE WorkerDone
  BY <1>17 DEF WorkerDone, sem_inc
<1>18. QED
  BY <1>1, <1>2, <1>3, <1>4, <1>5, <1>6, <1>7, <1>8, <1>9, <1>10, <1>11, <1>12, <1>13,
     <1>14, <1>15, <1>16, <1>17 DEF SidNext, Core1Mixes, SidWorkerRun

LEMMA SidStutters == SidInv /\ UNCHANGED sidVars => SidInv'
BY DEF SidInv, SidTypeOK, sidVars, Filling, InFlight, InRequest, InWorker, InDone, InWait

LEMMA SidInvImplies == SidInv => SidJobOwned
<1> SUFFICES ASSUME SidInv PROVE SidJobOwned
  OBVIOUS
<1> USE DEF SidInv, SidTypeOK, Filling, InFlight, InRequest, InWorker, InDone, InWait
<1>1. JobStable
  BY DEF JobStable
<1>2. ResultIsOwn
  BY DEF ResultIsOwn
<1>3. OneJobInFlight
  <2> DEFINE At(p) == <<InRequest, InWorker, InDone, InWait>>[p]
  <2>1. /\ At(1) <=> InRequest
        /\ At(2) <=> InWorker
        /\ At(3) <=> InDone
        /\ At(4) <=> InWait
    OBVIOUS
  <2>2. \A p \in 1..4 : p = 1 \/ p = 2 \/ p = 3 \/ p = 4
    OBVIOUS
  <2> HIDE DEF At, SidInv, InRequest, InWorker, InDone, InWait
  <2>3. /\ InFlight <=> (outstanding # NoJob)
        /\ ~(InRequest /\ InWorker) /\ ~(InRequest /\ InDone) /\ ~(InRequest /\ InWait)
        /\ ~(InWorker /\ InDone) /\ ~(InWorker /\ InWait) /\ ~(InDone /\ InWait)
    BY DEF SidInv
  <2>4. \A p, q \in 1..4 : At(p) /\ At(q) => p = q
    BY <2>1, <2>2, <2>3
  <2>5. (\A p \in 1..4 : ~At(p)) <=> (outstanding = NoJob)
    BY <2>1, <2>2, <2>3
  <2>6. QED
    BY <2>4, <2>5 DEF OneJobInFlight, At
<1>4. QED
  BY <1>1, <1>2, <1>3 DEF SidJobOwned

\* sidworker.cpp: the SID job has one owner at any time, whatever order core 1
\* submits and waits in and whatever events other cores send.
THEOREM SidJobHasOneOwner == SidSpec => []SidJobOwned
<1>1. SidInv /\ [SidNext \/ (SEV /\ UNCHANGED sidVars)]_<<sidVars, event>> => SidInv'
  BY SidStep, SidStutters
<1>2. QED
  BY <1>1, SidInitially, SidInvImplies, PTL DEF SidSpec

---------------------------------------------------------------------------
(* Cores.                                                                   *)

\* A step of the cores is a step of the mailbox or none, and one of the SID worker
\* or none.
LEMMA CoresStepProjects ==
  ASSUME [CoresNext]_coresVars
  PROVE  /\ Core0Next \/ UNCHANGED core0Vars
         /\ SidNext \/ UNCHANGED sidVars
<1>1. CASE Core1Begins
  BY <1>1 DEF Core1Begins, Core0Next, SidNext
<1>2. CASE Core1Goes
  BY <1>2 DEF Core1Goes, Core0Next, SidNext
<1>3. CASE Core0Goes
  BY <1>3 DEF Core0Goes, Core0Next
<1>4. CASE Core2Goes
  BY <1>4 DEF Core2Goes, SidNext
<1>5. CASE UNCHANGED coresVars
  BY <1>5 DEF coresVars
<1>6. QED
  BY <1>1, <1>2, <1>3, <1>4, <1>5 DEF CoresNext

\* The three cores together, sharing their events: the call is still a remote call.
THEOREM CoresMailboxIsRemoteCall == CoresSpec => IsRemoteCall
<1>1. CoresInit => Core0Inv /\ Remote!CallInit
  BY Core0Initially DEF CoresInit, Core0Init, Remote!CallInit
<1>2. Core0Inv /\ [CoresNext]_coresVars => Core0Inv'
  BY CoresStepProjects, Core0Step, Core0Stutters
<1>3. Core0Inv /\ [CoresNext]_coresVars => [Remote!CallNext]_(Remote!callVars)
  BY CoresStepProjects, Core0Implements DEF core0Vars, Remote!callVars
<1>4. QED
  BY <1>1, <1>2, <1>3, PTL DEF CoresSpec, IsRemoteCall, Remote!RemoteCallSpec

\* The three cores together: the SID job still has one owner.
THEOREM CoresSidJobOwned == CoresSpec => []SidJobOwned
<1>1. CoresInit => SidInv
  BY SidInitially DEF CoresInit
<1>2. SidInv /\ [CoresNext]_coresVars => SidInv'
  BY CoresStepProjects, SidStep, SidStutters
<1>3. QED
  BY <1>1, <1>2, SidInvImplies, PTL DEF CoresSpec

---------------------------------------------------------------------------
(* SoundOutput.                                                             *)

SoundTypeOK ==
  /\ usb \in Rates \cup {NoUsb} /\ usbTask \in {"Idle", "Scan", "Tell"}
  /\ mUSBOutputAvailable \in BOOLEAN /\ mUSBAudioChangePending \in BOOLEAN
  /\ vice \in {"Idle", "Load", "Decide", "Change", "Restart"} /\ available \in BOOLEAN
  /\ mViceSound \in BOOLEAN /\ soundStateChanged \in BOOLEAN /\ missed \in BOOLEAN
  /\ mOutputDevice \in {"none", "usb", "hdmi"} /\ active \in BOOLEAN
  /\ mSampleRate \in Rates \cup {DefaultRate} /\ mSoundSampleRate \in Rates \cup {DefaultRate}
  /\ mSoundOutputPriority \in {"usb", "hdmi"}

\* Core 0 has published what there is before it gives the word, and core 1 acts
\* on that word: what it has loaded is up to date unless another word is on its way.
\* An output that is not what the priority asks for has missed something.
SoundInv ==
  /\ SoundTypeOK
  /\ (usbTask = "Tell"
       \/ (usbTask = "Idle" /\ (mUSBAudioChangePending \/ vice \in {"Load", "Decide", "Change"})))
      => (mUSBOutputAvailable <=> (usb # NoUsb))
  /\ (usbTask = "Idle" /\ ~mUSBAudioChangePending /\ vice \in {"Decide", "Change"})
      => (available <=> (usb # NoUsb))
  /\ (~missed /\ mOutputDevice = "usb") => (mSoundOutputPriority = "usb")
  /\ PriorityKept

LEMMA SoundInitially == SoundInit => SoundInv
<1> SUFFICES ASSUME SoundInit PROVE SoundInv
  OBVIOUS
<1>1. SoundTypeOK
  BY DEF SoundInit, SoundTypeOK
<1>2. PriorityKept
  BY DEF SoundInit, PriorityKept
<1>3. QED
  BY <1>1, <1>2 DEF SoundInit, SoundInv

\* What a Playback that missed nothing has chosen.
LEMMA PlaybackChooses ==
  ASSUME SoundTypeOK, NEW priority \in {"usb", "hdmi"}, NEW rate \in Rates \cup {DefaultRate},
         Playback(priority, rate)
  PROVE  /\ mOutputDevice' \in {"none", "usb", "hdmi"} /\ active' \in BOOLEAN
         /\ missed' \in BOOLEAN
         /\ ~missed' => /\ active'
                        /\ mOutputDevice' = IF priority = "usb" /\ usb # NoUsb THEN "usb" ELSE "hdmi"
<1>1. PICK usbOk \in UsbStarts(rate), hdmiOk \in BOOLEAN :
        /\ mOutputDevice' =
             IF priority = "usb" /\ usbOk THEN "usb"
             ELSE IF hdmiOk THEN "hdmi" ELSE IF usbOk THEN "usb" ELSE "none"
        /\ active' = (mOutputDevice' # "none")
        /\ missed' = (~hdmiOk \/ (usb # NoUsb /\ ~usbOk))
  BY DEF Playback
<1>2. usbOk \in BOOLEAN /\ (usbOk => usb = rate)
  BY <1>1 DEF UsbStarts
<1>3. usbOk => usb # NoUsb
  BY <1>2, SoundAssumption
<1>4. /\ priority = "usb" /\ usbOk => mOutputDevice' = "usb"
      /\ ~(priority = "usb" /\ usbOk) /\ hdmiOk => mOutputDevice' = "hdmi"
      /\ mOutputDevice' \in {"none", "usb", "hdmi"}
  BY <1>1
<1>5. active' \in BOOLEAN /\ missed' \in BOOLEAN
  BY <1>1, <1>2
<1>6. ~missed' => hdmiOk /\ (usb # NoUsb => usbOk)
  BY <1>1, <1>2
<1>7. (mOutputDevice' # "none") => active'
  BY <1>1
<1>8. QED
  BY <1>3, <1>4, <1>5, <1>6, <1>7

\* Every step of the two cores keeps SoundInv.
LEMMA SoundStep == SoundInv /\ SoundNext => SoundInv'
<1> SUFFICES ASSUME SoundInv, SoundNext PROVE SoundInv'
  OBVIOUS
<1> USE SoundAssumption DEF SoundInv, SoundTypeOK, PriorityKept, SoundSettled, usbVars, playVars
<1>1. CASE UsbChanges
  <2>1. usb' \in Rates \cup {NoUsb} /\ active' \in BOOLEAN
    BY <1>1 DEF UsbChanges
  <2>2. usbTask' = "Scan" /\ usbTask = "Idle"
    BY <1>1 DEF UsbChanges
  <2>3. QED
    BY <1>1, <2>1, <2>2 DEF UsbChanges
<1>2. CASE ScanUsb
  <2>1. mUSBOutputAvailable' \in BOOLEAN /\ (mUSBOutputAvailable' <=> usb # NoUsb)
    BY <1>2 DEF ScanUsb
  <2>2. QED
    BY <1>2, <2>1 DEF ScanUsb
<1>3. CASE TellUsbChange
  BY <1>3 DEF TellUsbChange, Told
<1>4. CASE CoreComplete
  BY <1>4 DEF CoreComplete
<1>5. CASE ApplyUSBAudioChange
  <2>1. CASE mViceSound
    <3>1. /\ vice' = "Load" /\ vice = "Idle" /\ mUSBAudioChangePending
          /\ mUSBAudioChangePending' \in BOOLEAN /\ ~mUSBAudioChangePending'
          /\ UNCHANGED <<usb, usbTask, mUSBOutputAvailable, playVars, available, mViceSound,
                       mSoundOutputPriority, mSoundSampleRate, soundStateChanged, missed>>
      BY <1>5, <2>1 DEF ApplyUSBAudioChange
    <3>2. QED
      BY <3>1
  <2>2. CASE ~mViceSound
    <3>1. /\ vice' = "Idle" /\ vice = "Idle" /\ mUSBAudioChangePending
          /\ mUSBAudioChangePending' \in BOOLEAN /\ ~mUSBAudioChangePending'
          /\ UNCHANGED <<usb, usbTask, mUSBOutputAvailable, playVars, available, mViceSound,
                       mSoundOutputPriority, mSoundSampleRate, soundStateChanged, missed>>
      BY <1>5, <2>2 DEF ApplyUSBAudioChange
    <3>2. QED
      BY <2>2, <3>1
  <2>3. QED
    BY <2>1, <2>2
<1>6. CASE LoadAvailable
  BY <1>6 DEF LoadAvailable
<1>7. CASE ChangeSampleRate
  BY <1>7 DEF ChangeSampleRate
<1>8. CASE SameSampleRate
  BY <1>8 DEF SameSampleRate
<1>9. CASE USBPlugAndPlayChanged
  <2>1. CASE Keeps
    BY <1>9, <2>1 DEF USBPlugAndPlayChanged, Keeps
  <2>2. CASE ~Keeps
    <3> DEFINE priority == IF available THEN mSoundOutputPriority ELSE "hdmi"
    <3>1. Playback(priority, mSampleRate) /\ priority \in {"usb", "hdmi"}
      BY <1>9, <2>2 DEF USBPlugAndPlayChanged
    <3> HIDE DEF priority
    <3>2. /\ mOutputDevice' \in {"none", "usb", "hdmi"} /\ active' \in BOOLEAN
          /\ missed' \in BOOLEAN
          /\ ~missed' => /\ active'
                         /\ mOutputDevice' = IF priority = "usb" /\ usb # NoUsb THEN "usb" ELSE "hdmi"
      BY <3>1, PlaybackChooses
    <3>3. QED
      BY <1>9, <3>2 DEF USBPlugAndPlayChanged, priority
  <2>3. QED
    BY <2>1, <2>2
<1>10. CASE SoundOpens
  <2>1. CASE mViceSound
    <3>1. /\ vice' = "Restart" /\ vice = "Idle" 
          /\ soundStateChanged' \in BOOLEAN /\ ~soundStateChanged'
          /\ UNCHANGED <<usb, usbTask, mUSBOutputAvailable, playVars, mUSBAudioChangePending,
                       available, mViceSound, mSoundOutputPriority, missed>>
      BY <1>10, <2>1 DEF SoundOpens
    <3>2. mSoundSampleRate' \in Rates \cup {DefaultRate}
      BY <1>10 DEF SoundOpens, SelectSampleRate
    <3>3. QED
      BY <3>1, <3>2
  <2>2. CASE ~mViceSound
    <3>1. /\ vice' = "Idle" /\ vice = "Idle" 
          /\ soundStateChanged' \in BOOLEAN /\ ~soundStateChanged'
          /\ UNCHANGED <<usb, usbTask, mUSBOutputAvailable, playVars, mUSBAudioChangePending,
                       available, mViceSound, mSoundOutputPriority, missed>>
      BY <1>10, <2>2 DEF SoundOpens
    <3>2. mSoundSampleRate' \in Rates \cup {DefaultRate}
      BY <1>10 DEF SoundOpens, SelectSampleRate
    <3>3. QED
      BY <2>2, <3>1, <3>2
  <2>3. QED
    BY <2>1, <2>2
<1>11. CASE SoundRestarts
  <2>1. /\ mOutputDevice' \in {"none", "usb", "hdmi"} /\ active' \in BOOLEAN
        /\ missed' \in BOOLEAN
        /\ ~missed' => /\ active'
                       /\ mOutputDevice' = IF mSoundOutputPriority = "usb" /\ usb # NoUsb
                                           THEN "usb" ELSE "hdmi"
    BY <1>11, PlaybackChooses DEF SoundRestarts
  <2>2. QED
    BY <1>11, <2>1 DEF SoundRestarts
<1>12. ASSUME MakeSound, UNCHANGED <<usbVars, mUSBAudioChangePending, vice, available,
                                     mSoundOutputPriority, mSoundSampleRate, soundStateChanged>>
       PROVE  SoundInv'
  <2>1. /\ mOutputDevice' \in {"none", "usb", "hdmi"} /\ active' \in BOOLEAN
        /\ missed' \in BOOLEAN
        /\ ~missed' => /\ active'
                       /\ mOutputDevice' = IF mSoundOutputPriority = "usb" /\ usb # NoUsb
                                           THEN "usb" ELSE "hdmi"
    BY <1>12, PlaybackChooses DEF MakeSound
  <2>2. QED
    BY <1>12, <2>1 DEF MakeSound
<1>13. CASE BootComplete
  <2>1. CASE coresComplete
    BY <1>12, <1>13, <2>1 DEF BootComplete
  <2>2. CASE ~coresComplete
    BY <1>13, <2>2 DEF BootComplete
  <2>3. QED
    BY <2>1, <2>2
<1>14. CASE LateSoundInit
  BY <1>12, <1>14 DEF LateSoundInit
<1>15. CASE SetPriority
  BY <1>15 DEF SetPriority
<1>16. QED
  BY <1>1, <1>2, <1>3, <1>4, <1>5, <1>6, <1>7, <1>8, <1>9, <1>10, <1>11, <1>13, <1>14, <1>15
     DEF SoundNext, UsbTask, ViceCore

\* vicesound.cpp, kernel.cpp: however USB devices are exchanged between core 1's
\* looks at them, a settled output is on the device the priority asks for, unless a
\* device refused or the priority was changed since.
THEOREM PriorityIsKept == SoundSpec => []PriorityKept
<1>1. SoundInv /\ [SoundNext]_soundVars => SoundInv'
  <2>1. SoundInv /\ UNCHANGED soundVars => SoundInv'
    BY DEF SoundInv, SoundTypeOK, PriorityKept, SoundSettled, soundVars, usbVars, playVars
  <2>2. QED
    BY <2>1, SoundStep
<1>2. SoundInv => PriorityKept
  BY DEF SoundInv
<1>3. QED
  BY <1>1, <1>2, SoundInitially, PTL DEF SoundSpec
=============================================================================
