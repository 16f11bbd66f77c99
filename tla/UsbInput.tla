------------------------------ MODULE UsbInput ------------------------------
(***************************************************************************)
(* USB keyboards and the mouse on their way to the emulated machine        *)
(* (kernel.cpp, usb_keyboard_state.cpp, mouse_input.cpp).  Reports of      *)
(* several keyboards are merged; the difference between two merged states  *)
(* becomes presses and releases.  The menu, and in it the monitors for raw *)
(* input, take the events away from the machine and give them back while   *)
(* keys and buttons may be held.                                           *)
(*                                                                         *)
(* Modifiers are keys like the others.  What the menu does with its events *)
(* is not modelled, nor is the translation of shifted cursor keys for it.  *)
(* A handler reads ui_enabled, which core 1 writes, once.                  *)
(***************************************************************************)
EXTENDS Naturals

CONSTANTS Keyboards, Keys, Buttons

VARIABLES
  ui_enabled, rawKeyboard, mouseMode,      \* what the menu wants
  held,                                    \* the keys really held on each keyboard
  mUSBKeyboards, owners, key_states, suppressed, monitorActive,
  machineKeys,                             \* keys the machine believes to be down
  strayed,                                 \* history: down when the menu came or went
  mouse, buttonsHeld,                      \* the mouse is there; its buttons
  mouseState,                              \* BmxMouseStatusState
  machineButtons,                          \* buttons the machine believes to be down
  unplugged                                \* history: held when the mouse was removed

menuVars == <<ui_enabled, rawKeyboard, mouseMode>>
keyVars == <<held, mUSBKeyboards, owners, key_states, suppressed, monitorActive,
             machineKeys, strayed>>
mouseVars == <<mouse, buttonsHeld, mouseState, machineButtons, unplugged>>
inputVars == <<menuVars, keyVars, mouseVars>>

InputInit ==
  /\ ui_enabled = FALSE /\ rawKeyboard = FALSE /\ mouseMode = "off"
  /\ held = [s \in Keyboards |-> {}] /\ mUSBKeyboards = {}
  /\ owners = [k \in Keys |-> {}]
  /\ key_states = {} /\ suppressed = {} /\ monitorActive = FALSE
  /\ machineKeys = {} /\ strayed = {}
  /\ mouse = FALSE /\ buttonsHeld = {}
  /\ mouseState = [previous |-> {}, suppressed |-> {}, consumer |-> "machine"]
  /\ machineButtons = {} /\ unplugged = {}

emu_wants_raw_keyboard == ui_enabled /\ rawKeyboard

---------------------------------------------------------------------------
(* USBKeyboardState.                                                        *)

Pressed(own) == {k \in Keys : own[k] # {}}

\* ApplyReport: keyboard s holds the keys ks, and the others what they held.
ApplyReport(s, ks) ==
  [k \in Keys |-> IF k \in ks THEN owners[k] \cup {s} ELSE owners[k] \ {s}]

---------------------------------------------------------------------------
(* The kernel's handlers.  own is the merged state with the report in it.   *)

\* Mutant: nothing is remembered of the monitor.
SuppressedAfterMonitorNone == suppressed

\* EndRawKeyboardMonitor: the keys held in the monitor count as not pressed
\* until they are released.
SuppressedAfterMonitor == IF monitorActive THEN Pressed(owners) ELSE suppressed

\* Mutant: a report with a press in it releases nothing.
ReleasedUnlessPressed(new) == IF new \subseteq key_states THEN key_states \ new ELSE {}

Released(new) == key_states \ new

\* DispatchUSBKeyboardState: presses and releases go to the menu when it is open
\* and else to the machine.
DispatchUSBKeyboardState(own) ==
  LET new == Pressed(own) \ SuppressedAfterMonitor
  IN  /\ suppressed' = SuppressedAfterMonitor \cap Pressed(own)
      /\ key_states' = new
      /\ IF ui_enabled THEN UNCHANGED <<machineKeys, strayed>>
         ELSE /\ machineKeys' = (machineKeys \ Released(new)) \cup (new \ key_states)
              /\ strayed' = strayed \ ((key_states \ new) \cup (new \ key_states))

\* The monitor takes the keyboard: what the menu believes to be down is released.
\* ReleaseDispatchedUSBKeyboardState
ToMonitor(own) ==
  /\ emu_wants_raw_keyboard
  /\ owners' = own
  /\ key_states' = IF monitorActive THEN key_states ELSE {}
  /\ monitorActive' = TRUE
  /\ UNCHANGED <<suppressed, machineKeys, strayed>>

\* Nothing is dispatched when neither the merged state nor the receiver changes.
ToReceiver(own) ==
  /\ ~emu_wants_raw_keyboard
  /\ owners' = own
  /\ monitorActive' = FALSE
  /\ IF monitorActive \/ Pressed(own) # Pressed(owners)
     THEN DispatchUSBKeyboardState(own)
     ELSE UNCHANGED <<suppressed, key_states, machineKeys, strayed>>

\* KeyStatusHandlerRaw.
Report(s, ks) ==
  /\ s \in mUSBKeyboards
  /\ held' = [held EXCEPT ![s] = ks]
  /\ ToMonitor(ApplyReport(s, ks)) \/ ToReceiver(ApplyReport(s, ks))
  /\ UNCHANGED <<mUSBKeyboards, menuVars, mouseVars>>

\* A report of too many keys says nothing about them.
ErrorReport(s) ==
  /\ s \in mUSBKeyboards
  /\ ToMonitor(owners) \/ ToReceiver(owners)
  /\ UNCHANGED <<held, mUSBKeyboards, menuVars, mouseVars>>

\* RemoveUSBKeyboardDevice: a report without keys, here of another keyboard in
\* the same slot or of one that is gone.
RemoveUSBKeyboardDevice(s) ==
  /\ held' = [held EXCEPT ![s] = {}]
  /\ ToMonitor(ApplyReport(s, {})) \/ ToReceiver(ApplyReport(s, {}))
  /\ UNCHANGED <<menuVars, mouseVars>>

\* KeyRemovedHandler.
KeyRemovedHandler(s) ==
  /\ s \in mUSBKeyboards
  /\ mUSBKeyboards' = mUSBKeyboards \ {s}
  /\ RemoveUSBKeyboardDevice(s)

\* SetupUSBKeyboard finds a new device in the slot.
SetupUSBKeyboard(s) ==
  /\ mUSBKeyboards' = mUSBKeyboards \cup {s}
  /\ RemoveUSBKeyboardDevice(s)

---------------------------------------------------------------------------
(* The mouse.                                                               *)

\* Who receives the mouse: the monitor before the menu.
MouseConsumer == IF ~ui_enabled \/ mouseMode = "off" THEN "machine" ELSE mouseMode

\* The buttons that count as not pressed until they are released: those held
\* when a consumer other than the machine gives the mouse away, and those the
\* machine had when the menu takes it.
StillSuppressed(b) ==
  CASE MouseConsumer = mouseState.consumer -> mouseState.suppressed \cap b
    [] MouseConsumer = "monitor" /\ mouseState.consumer # "monitor" -> {}
    [] MouseConsumer = "menu" /\ mouseState.consumer = "machine" -> mouseState.previous \cap b
    [] OTHER                               -> b

\* What the machine believes: it is told of every release when it loses the mouse.
MachineButtons(b) == IF MouseConsumer = "machine" THEN b \ StillSuppressed(b) ELSE {}

\* bmx_mouse_status_update.
MouseReport(b) ==
  /\ mouse
  /\ buttonsHeld' = b /\ unplugged' = {}
  /\ machineButtons' = MachineButtons(b)
  /\ mouseState' = [previous   |-> MachineButtons(b),
                    suppressed |-> StillSuppressed(b),
                    consumer   |-> MouseConsumer]
  /\ UNCHANGED <<mouse, menuVars, keyVars>>

\* MouseRemovedHandler tells nobody.
MouseRemovedHandler ==
  /\ mouse
  /\ mouse' = FALSE /\ buttonsHeld' = {} /\ unplugged' = unplugged \cup buttonsHeld
  /\ UNCHANGED <<mouseState, machineButtons, menuVars, keyVars>>

SetupUSBMouse ==
  /\ ~mouse /\ mouse' = TRUE
  /\ UNCHANGED <<buttonsHeld, mouseState, machineButtons, unplugged, menuVars, keyVars>>

---------------------------------------------------------------------------
(* The menu, on core 1.                                                     *)

ToggleUi ==
  /\ ui_enabled' = ~ui_enabled
  /\ strayed' = strayed \cup key_states
  /\ UNCHANGED <<rawKeyboard, mouseMode, held, mUSBKeyboards, owners, key_states, suppressed,
                 monitorActive, machineKeys, mouseVars>>

ChooseInput ==
  /\ ui_enabled
  /\ rawKeyboard' \in BOOLEAN /\ mouseMode' \in {"off", "menu", "monitor"}
  /\ UNCHANGED <<ui_enabled, keyVars, mouseVars>>

InputNext ==
  \/ \E s \in Keyboards :
       \/ \E ks \in SUBSET Keys : Report(s, ks)
       \/ ErrorReport(s) \/ KeyRemovedHandler(s) \/ SetupUSBKeyboard(s)
  \/ \E b \in SUBSET Buttons : MouseReport(b)
  \/ MouseRemovedHandler \/ SetupUSBMouse
  \/ ToggleUi \/ ChooseInput

InputSpec == InputInit /\ [][InputNext]_inputVars

---------------------------------------------------------------------------
(* Properties.                                                              *)

\* DispatchUSBKeyboardState: whatever keyboards come and go and whatever the
\* monitor took, the keys passed on as pressed are exactly those really held on
\* some keyboard, without the ones held since the monitor.
KeysMirrorKeyboards ==
  ~monitorActive => key_states = (UNION {held[s] : s \in Keyboards}) \ suppressed

\* The machine believes no key to be down that is up, unless the menu came or
\* went while it was held.
NoStuckKeys == machineKeys \subseteq key_states \cup strayed

\* A key reaches the machine only with the report in which it goes down: never
\* because the monitor or the menu closes while it is held.
PressesAreFresh ==
  [][\A k \in machineKeys' \ machineKeys : k \notin UNION {held[s] : s \in Keyboards}]_inputVars

\* mouse_input.cpp: "This prevents a menu click from turning into a phantom click
\* in the emulated machine".
NoPhantomClick ==
  [][\A b \in machineButtons' \ machineButtons : b \notin buttonsHeld]_inputVars

\* The machine believes no button to be down that is up, unless the mouse was
\* removed with the button held.
NoStuckButtons == machineButtons \subseteq buttonsHeld \cup unplugged

\* The machine sees the keys and buttons that are held.
InputFaithful == KeysMirrorKeyboards /\ NoStuckKeys /\ NoStuckButtons

\* It sees them go down when they do.
InputFresh == PressesAreFresh /\ NoPhantomClick
=============================================================================
