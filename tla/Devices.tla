------------------------------- MODULE Devices -------------------------------
(***************************************************************************)
(* The devices a user sees and touches: the Pi 4 display of the 32-bit     *)
(* build, the layers of the 64-bit builds, and the USB keyboards and       *)
(* mouse.  They share no state and do not call each other; like HandOffs   *)
(* this module is their sum.  Keyboards and mouse share no more than what  *)
(* the menu wants, which changes freely, and no property relates the two:  *)
(* the sum has the input twice, with only the keyboards and only the mouse *)
(* in use.                                                                 *)
(***************************************************************************)
EXTENDS Pi4Display, UsbInput, NativeLayers

VARIABLE part      \* the component that moves

devicesVars == <<part, vars, inputVars, nativeVars>>

DevicesInit ==
  /\ part \in {"display", "keyboards", "mouse", "layers"}
  /\ Init /\ InputInit /\ NativeInit
  /\ part # "display" => ~requested /\ ~v3dFailed      \* one state is enough
  /\ part # "layers" => board = CHOOSE b \in Boards : TRUE

\* A step of one component.
DisplayPart(A) == part = "display" /\ A /\ UNCHANGED <<part, inputVars, nativeVars>>
KeyboardsPart(A) == part = "keyboards" /\ A /\ UNCHANGED <<part, mouseVars, vars, nativeVars>>
MousePart(A) == part = "mouse" /\ A /\ UNCHANGED <<part, keyVars, vars, nativeVars>>
LayersPart(A) == part = "layers" /\ A /\ UNCHANGED <<part, vars, inputVars>>

DevicesNext ==
  \/ DisplayPart(Next) \/ KeyboardsPart(InputNext) \/ MousePart(InputNext)
  \/ LayersPart(NativeNext)

DevicesSpec == DevicesInit /\ [][DevicesNext]_devicesVars

\* The base layer fills the screen, an overlay a part of it.
MCRects == [l \in NativeLayerSet |-> IF l = BaseLayer THEN {Screen} ELSE {{1}}]
=============================================================================
