------------------------------ MODULE HandOffs ------------------------------
(***************************************************************************)
(* The components in which one core hands something to another: the remote *)
(* control exchange (core 0 and core 1), the display calls and SID jobs    *)
(* (core 1 with cores 0 and 2), the change of the sound device (core 0 to  *)
(* core 1) and the modem's connections (core 1 to the network worker of    *)
(* core 0).  They share no state and do not call each other, so that this  *)
(* module is their sum and not their product: at the start one of them is  *)
(* chosen, and the others stay as they are.                                *)
(***************************************************************************)
EXTENDS RemoteControl, Cores, SoundOutput, AsyncNetwork

VARIABLE part      \* the component that moves

handOffVars == <<part, vars, coresVars, soundVars, netVars>>

HandOffsInit ==
  /\ part \in {"remote", "cores", "sound", "network"}
  /\ Init /\ CoresInit /\ SoundInit /\ NetInit
  /\ part # "sound" => usb = NoUsb /\ mSoundOutputPriority = "usb"   \* one state is enough

\* A step of one component.
RemotePart(A) == part = "remote" /\ A /\ UNCHANGED <<part, coresVars, soundVars, netVars>>
CoresPart(A) == part = "cores" /\ A /\ UNCHANGED <<part, vars, soundVars, netVars>>
SoundPart(A) == part = "sound" /\ A /\ UNCHANGED <<part, vars, coresVars, netVars>>
NetworkPart(A) == part = "network" /\ A /\ UNCHANGED <<part, vars, coresVars, soundVars>>

HandOffsNext ==
  RemotePart(Next) \/ CoresPart(CoresNext) \/ SoundPart(SoundNext) \/ NetworkPart(NetNext)

\* The fairness of each component; the network worker's task keeps running and every
\* connection attempt ends.
HandOffsFairness ==
  /\ WF_vars(RemotePart(ExchangeStep))
  /\ WF_vars(RemotePart(SafePointStep))
  /\ SF_vars(RemotePart(SoundWrite))
  /\ WF_vars(RemotePart(stop_requested /\ RunStop))
  /\ WF_vars(RemotePart(RunExit))
  /\ WF_coresVars(CoresPart(Core1Goes))
  /\ WF_coresVars(CoresPart(Core0Goes))
  /\ WF_coresVars(CoresPart(Core2Goes))
  /\ WF_soundVars(SoundPart(UsbTask))
  /\ WF_soundVars(SoundPart(ViceCore))
  /\ WF_netVars(NetworkPart(Worker))

HandOffsSpec == HandOffsInit /\ [][HandOffsNext]_handOffVars /\ HandOffsFairness
=============================================================================
