---------------------------- MODULE NativeLayers ----------------------------
(***************************************************************************)
(* The frame buffer layers of the 64-bit builds (fbl_native_kms.cpp) over  *)
(* native KMS (pi5kms/pi5_kms.cpp, pi4kms/pi4_native_kms.cpp) and the V3D  *)
(* (pi5v3d/pi5_v3d.cpp, pi4v3d/pi4_v3d.cpp).                               *)
(*                                                                         *)
(* A present tries three paths: the V3D renders the base layer and the     *)
(* overlays become planes of their own; every layer becomes a plane; or    *)
(* the processor composes all layers.  Each path keeps copies of the       *)
(* layers' pixels and renews only what it believes to have changed, and    *)
(* each may fail after it has changed them.  One core runs all of it; only *)
(* the display hardware goes on beside it.                                 *)
(*                                                                         *)
(* Pixels are abstract: a layer's copy is stale or fresh, and a column of  *)
(* a composed picture holds the layers that were drawn there, or is stale  *)
(* because one of them has changed.  A rectangle is an interval of         *)
(* columns.  There is one base layer.  Whether the effects are on and the  *)
(* V3D works is a choice at each present.                                  *)
(***************************************************************************)
EXTENDS Naturals

CONSTANTS
  BaseLayer, OverlayLayers,
  Columns,            \* the width of the screen
  Rects,              \* the places a layer may be shown at
  Boards              \* "Pi4", "Pi5", or "Firmware": no native mode was set

NativeLayerSet == {BaseLayer} \cup OverlayLayers
Screen == 1..Columns

ASSUME NativeAssumption ==
  /\ BaseLayer \notin OverlayLayers /\ Columns \in Nat \ {0}
  /\ Rects \in [NativeLayerSet -> SUBSET SUBSET Screen]
  /\ Boards \subseteq {"Pi4", "Pi5", "Firmware"}
  /\ {"stale", "v3d"} \cap NativeLayerSet = {}      \* names with a meaning of their own

VARIABLES
  board,
  showing_, dst, dirty_,      \* FrameBufferLayer
  hwscale,            \* g_kms_hwscale_framebuffers and _framebuffer_valid
  hwFront,            \* g_kms_hwscale_front_buffer_index and _valid
  kmsFront,           \* g_kms_front_buffer_index
  composed,           \* the columns of g_compose_pixels
  kmsBuffer,          \* g_kms_framebuffers; on "Firmware" 0 is the screen
  kmsPending,         \* g_software_kms_pending
  snapshot,           \* g_software_layers and g_software_composition_valid
  submittedPlanes,    \* the display list submitted last
  scannedMemory,      \* what the display hardware scans
  stranded,           \* history: the overlays shown from their back buffer since a present failed
  path,               \* where PresentLayerList is
  outcome             \* history: "shown" after a present that a path has carried out

shownVars == <<board, showing_, dst>>
copyVars == <<dirty_, hwscale, hwFront>>
softVars == <<composed, kmsBuffer, kmsPending, snapshot>>
scanVars == <<submittedPlanes, scannedMemory, stranded>>
nativeVars == <<shownVars, copyVars, softVars, scanVars, kmsFront, path, outcome>>

Indexes == 0..1         \* of two buffers that take turns
NoIndex == 2
NoRect == {}
Stale == {"stale"}
Foreign == {"v3d"}      \* the copy of a V3D frame
Blank == [c \in Screen |-> {}]

\* What a plane of a display list is scanned from, and where it is shown.
Memory(kind, l, i) == [kind |-> kind, layer |-> l, index |-> i]
LayerPlane(l, i) == [from |-> Memory("layer", l, i), at |-> dst[l]]
V3dPlane == [from |-> Memory("v3d", BaseLayer, NoIndex), at |-> dst[BaseLayer]]
KmsPlane(i) == [from |-> Memory("kms", BaseLayer, i), at |-> Screen]
MemoryOf(ps) == {p.from : p \in ps}

\* InvalidateSoftwareComposition: nothing that it held is looked at again.
NoSnapshot == [valid |-> FALSE, same |-> {}, showing |-> {},
               at |-> [l \in NativeLayerSet |-> NoRect]]
Invalidated ==
  /\ snapshot' = NoSnapshot /\ composed' = Blank
  /\ kmsBuffer' = [i \in Indexes |-> Blank] /\ kmsPending' = [i \in Indexes |-> {}]

NativeInit ==
  /\ board \in Boards
  /\ showing_ = {} /\ dst = [l \in NativeLayerSet |-> NoRect] /\ dirty_ = NativeLayerSet
  /\ hwscale = [l \in NativeLayerSet |-> [i \in Indexes |-> "invalid"]]
  /\ hwFront = [l \in OverlayLayers |-> NoIndex]
  /\ kmsFront = 0
  /\ snapshot = NoSnapshot /\ composed = Blank
  /\ kmsBuffer = [i \in Indexes |-> Blank] /\ kmsPending = [i \in Indexes |-> {}]
  /\ submittedPlanes = {KmsPlane(0)} /\ scannedMemory = {Memory("kms", BaseLayer, 0)}
  /\ stranded = {}
  /\ path = "Idle" /\ outcome = "none"

---------------------------------------------------------------------------
(* The calls of the kernel.                                                 *)

\* A composed picture after some of its layers have changed.
Outdated(picture, ls) ==
  [c \in Screen |-> IF picture[c] \cap ls = {} THEN picture[c] ELSE Stale]

\* MarkDirty invalidates the copies of the base layer.  An overlay keeps its
\* flags: dirty_ says that its copies are stale.
MarkDirty(ls) ==
  /\ dirty_' = dirty_ \cup ls
  /\ hwscale' = [l \in NativeLayerSet |-> [i \in Indexes |->
       CASE l \notin ls \/ hwscale[l][i] = "invalid" -> hwscale[l][i]
         [] l \in ls /\ l = BaseLayer -> "invalid"
         [] OTHER -> "stale"]]
  /\ snapshot' = [snapshot EXCEPT !.same = @ \ ls]
  /\ composed' = Outdated(composed, ls)
  /\ kmsBuffer' = [i \in Indexes |-> Outdated(kmsBuffer[i], ls)]

Presenting == path' = (IF board = "Pi4" THEN "Fence" ELSE "V3d") /\ outcome' = "none"
NotPresented == path' = "Idle" /\ outcome' = "none"

Called == UNCHANGED <<board, hwFront, kmsFront, kmsPending, scanVars>>

\* FrameReady of some layers and PresentLayers, or UpdatePalette of a layer that is
\* shown; of none, SetInterpolation, ReAllocate and SetShaderParams, which present
\* what there is.
PresentReady(ls) ==
  /\ path = "Idle"
  /\ MarkDirty(ls) /\ Presenting /\ Called /\ UNCHANGED <<showing_, dst>>

\* Show computes the layer's rectangle from the settings made before.
ShowLayer(l) ==
  /\ path = "Idle" /\ l \notin showing_
  /\ showing_' = showing_ \cup {l}
  /\ \E r \in Rects[l] : dst' = [dst EXCEPT ![l] = r]
  /\ MarkDirty({l}) /\ Presenting /\ Called

\* Where a hidden layer would be is not looked at.
Vanish(l) == showing_' = showing_ \ {l} /\ dst' = [dst EXCEPT ![l] = NoRect]

HideLayer(l) ==
  /\ path = "Idle" /\ l \in showing_
  /\ Vanish(l) /\ MarkDirty({l}) /\ Presenting /\ Called

\* FreeInternal presents nothing.
FreeLayer(l) ==
  /\ path = "Idle" /\ l \in showing_
  /\ Vanish(l) /\ NotPresented /\ Called
  /\ UNCHANGED <<dirty_, hwscale, composed, kmsBuffer, snapshot>>

\* Allocate, Clear, SetPalette and SetSrcRect, and UpdatePalette of a hidden layer.
ChangeLayer(l) ==
  /\ path = "Idle" /\ MarkDirty({l})
  /\ NotPresented /\ Called /\ UNCHANGED <<showing_, dst>>

\* CaptureRgb888 composes the screenshot in g_compose_pixels.
CaptureRgb888 ==
  /\ path = "Idle" /\ Invalidated /\ NotPresented
  /\ UNCHANGED <<shownVars, copyVars, kmsFront, scanVars>>

NativeCall ==
  \/ \E ls \in SUBSET NativeLayerSet : PresentReady(ls)
  \/ \E l \in NativeLayerSet :
       ShowLayer(l) \/ HideLayer(l) \/ FreeLayer(l) \/ ChangeLayer(l)
  \/ CaptureRgb888

---------------------------------------------------------------------------
(* PresentLayerList.  First the fence, which only the Pi 4 has.             *)

PresentFenced ==
  /\ path = "Fence" /\ scannedMemory = MemoryOf(submittedPlanes)
  /\ path' = "V3d"
  /\ UNCHANGED <<shownVars, copyVars, softVars, scanVars, kmsFront, outcome>>

PresentHeld ==
  /\ path = "Fence" /\ NotPresented
  /\ UNCHANGED <<shownVars, copyVars, softVars, scanVars, kmsFront>>

kms_back_buffer_index == 1 - kmsFront

\* PresentScanout succeeds: the list is scanned from the next VBlank on.  Only on the
\* Pi 4 does the code look at that before the next present, and only there a property
\* is about it; elsewhere a list counts as scanned at once.
Submit(ps) ==
  /\ submittedPlanes' = ps /\ stranded' = {}
  /\ scannedMemory' = IF board = "Pi4" THEN scannedMemory ELSE MemoryOf(ps)

Shown == path' = "Idle" /\ outcome' = "shown"

\* A path gives up, and the next one is tried.
GivesUp(next) == path' = next /\ UNCHANGED <<shownVars, scanVars, kmsFront, outcome>>

---------------------------------------------------------------------------
(* BuildKmsLayerPlane.                                                      *)

\* The buffer of an overlay is its own: the one shown if it is up to date, else
\* the other.  The base layer follows the KMS buffers.
SelectedBuffer(l) ==
  IF l \in OverlayLayers /\ hwFront[l] # NoIndex
  THEN IF l \in dirty_ THEN 1 - hwFront[l]
       ELSE IF hwscale[l][hwFront[l]] # "invalid" THEN hwFront[l]
       ELSE kms_back_buffer_index
  ELSE kms_back_buffer_index

\* CopyLayerSourceToHwscaleFramebuffer: a buffer that is up to date is left alone.
NeedsCopy(l) == l \in dirty_ \/ hwscale[l][SelectedBuffer(l)] = "invalid"

\* Mutant: a layer stays dirty until a path has shown it.
BuildPlanesDirty(ls, lost) ==
  /\ hwscale' = [l \in NativeLayerSet |-> [i \in Indexes |->
       CASE l \in ls /\ i = SelectedBuffer(l) /\ NeedsCopy(l) -> "fresh"
         [] l \in lost /\ i = SelectedBuffer(l) /\ NeedsCopy(l) -> "invalid"
         [] OTHER -> hwscale[l][i]]]
  /\ dirty_' = dirty_
  /\ hwFront' = [l \in OverlayLayers |-> IF l \in ls THEN SelectedBuffer(l) ELSE hwFront[l]]

\* The planes of some layers are built; lost buffers were to be made anew, and
\* there was no memory for them.
BuildPlanes(ls, lost) ==
  /\ hwscale' = [l \in NativeLayerSet |-> [i \in Indexes |->
       CASE l \in ls /\ i = SelectedBuffer(l) /\ NeedsCopy(l) -> "fresh"
         [] l \in lost /\ i = SelectedBuffer(l) /\ NeedsCopy(l) -> "invalid"
         [] OTHER -> hwscale[l][i]]]
  /\ dirty_' = {l \in dirty_ : l \notin ls}
  /\ hwFront' = [l \in OverlayLayers |-> IF l \in ls THEN SelectedBuffer(l) ELSE hwFront[l]]

BuiltPlanes(ls) == {LayerPlane(l, SelectedBuffer(l)) : l \in ls}

\* CanUseKmsDirectScanout refuses a layer, or its copy fails: those before it
\* are built already.
BuildFails(ls, next) ==
  /\ \E l \in ls : \E before \in SUBSET (ls \ {l}), lost \in {{}, {l}} :
       /\ before # {} /\ BaseLayer \in ls => BaseLayer \in before
       /\ BuildPlanes(before, lost)
  /\ GivesUp(next) /\ UNCHANGED softVars

---------------------------------------------------------------------------
(* TryV3dPostprocess.                                                       *)

ShownOverlays == showing_ \ {BaseLayer}

\* No effects, no V3D, no base layer, or a format it cannot render.
V3dRefuses ==
  /\ path = "V3d" /\ GivesUp("Direct")
  /\ UNCHANGED <<copyVars, softVars>>

V3dStarts ==
  path = "V3d" /\ board # "Firmware" /\ BaseLayer \in showing_

V3dBuildFails == V3dStarts /\ BuildFails(ShownOverlays, "Direct")

V3dRenderFails ==
  /\ V3dStarts /\ BuildPlanes(ShownOverlays, {})
  /\ GivesUp("Direct") /\ UNCHANGED softVars

\* Its target becomes the base plane.  Without overlays the Pi 5 presents it
\* inside RenderFrame, and the KMS buffers do not change their roles.
V3dPresent ==
  /\ V3dStarts /\ BuildPlanes(ShownOverlays, {})
  /\ Submit({V3dPlane} \cup BuiltPlanes(ShownOverlays))
  /\ kmsFront' = IF board = "Pi5" /\ ShownOverlays = {} THEN kmsFront ELSE kms_back_buffer_index
  /\ Invalidated /\ Shown /\ UNCHANGED shownVars

\* On the Pi 5 a list with overlays has no other way.
V3dPresentFails ==
  /\ V3dStarts /\ board = "Pi5" /\ ShownOverlays # {}
  /\ BuildPlanes(ShownOverlays, {})
  /\ GivesUp("Direct") /\ UNCHANGED softVars

\* The present has failed, or the target is no plane: the processor copies it
\* into a KMS buffer, and that one is presented.
V3dCopyPresent ==
  /\ V3dStarts /\ BuildPlanes(ShownOverlays, {})
  /\ Submit({KmsPlane(kms_back_buffer_index)} \cup BuiltPlanes(ShownOverlays))
  /\ kmsFront' = kms_back_buffer_index
  /\ Invalidated /\ Shown /\ UNCHANGED shownVars

\* Or not: the copy stays in a buffer of which the software path believes to
\* know what it holds.
V3dCopyPresentFails ==
  /\ V3dStarts /\ BuildPlanes(ShownOverlays, {})
  /\ kmsBuffer' = [kmsBuffer EXCEPT ![kms_back_buffer_index] =
       IF snapshot.valid THEN [c \in Screen |-> Foreign] ELSE Blank]
  /\ GivesUp("Direct") /\ UNCHANGED <<composed, kmsPending, snapshot>>

TryV3dPostprocess ==
  \/ V3dRefuses \/ V3dBuildFails \/ V3dRenderFails \/ V3dPresent \/ V3dPresentFails
  \/ V3dCopyPresent \/ V3dCopyPresentFails

---------------------------------------------------------------------------
(* TryKmsDirectScanout.                                                     *)

DirectRefuses ==
  /\ path = "Direct" /\ (board = "Firmware" \/ showing_ = {})
  /\ GivesUp("Software")
  /\ UNCHANGED <<copyVars, softVars>>

DirectStarts == path = "Direct" /\ board # "Firmware" /\ showing_ # {}

DirectBuildFails == DirectStarts /\ BuildFails(showing_, "Software")

DirectPresent ==
  /\ DirectStarts /\ BuildPlanes(showing_, {})
  /\ Submit(BuiltPlanes(showing_))
  /\ kmsFront' = kms_back_buffer_index
  /\ Invalidated /\ Shown /\ UNCHANGED shownVars

DirectPresentFails ==
  /\ DirectStarts /\ BuildPlanes(showing_, {})
  /\ GivesUp("Software") /\ UNCHANGED softVars

TryKmsDirectScanout ==
  DirectRefuses \/ DirectBuildFails \/ DirectPresent \/ DirectPresentFails

---------------------------------------------------------------------------
(* The composition by the processor.                                        *)

\* AddDirtyRect: the smallest interval around both.
AddDirtyRect(d, r) == {c \in Screen : \E a, b \in d \cup r : a <= c /\ c <= b}

Changed(l) ==
  \/ l \notin snapshot.same
  \/ (l \in snapshot.showing) # (l \in showing_)
  \/ snapshot.at[l] # dst[l]

\* Mutant: where it was is not cleared.
ChangedRectNew(l) == IF l \in showing_ THEN dst[l] ELSE {}

\* Where a changed layer was, and where it is.
ChangedRect(l) ==
  (IF l \in snapshot.showing THEN snapshot.at[l] ELSE {})
    \cup (IF l \in showing_ THEN dst[l] ELSE {})

Dirty ==
  IF ~snapshot.valid THEN Screen
  ELSE AddDirtyRect({}, UNION {ChangedRect(l) : l \in {k \in NativeLayerSet : Changed(k)}})

\* What a column shows when the layers are drawn in it.
Drawn(c) == {l \in showing_ : c \in dst[l]}

\* All layers are drawn in the dirty columns, and the snapshot is taken.
Compose ==
  /\ composed' = [c \in Screen |-> IF c \in Dirty THEN Drawn(c) ELSE composed[c]]
  /\ snapshot' = [valid |-> TRUE, same |-> NativeLayerSet, showing |-> showing_, at |-> dst]
  /\ UNCHANGED <<shownVars, copyVars>>

\* The columns that a buffer takes over from the composition; in the other one
\* they are stale.
Copied(buffer, cs) ==
  [i \in Indexes |-> [c \in Screen |->
     IF i = buffer /\ c \in cs THEN composed'[c]
     ELSE IF i # buffer /\ c \in Dirty THEN Stale ELSE kmsBuffer[i][c]]]

\* Without a native mode the screen takes the dirty columns at once.
ComposeScreen ==
  /\ path = "Software" /\ board = "Firmware" /\ Compose
  /\ kmsBuffer' = Copied(0, Dirty)
  /\ kmsPending' = [i \in Indexes |-> AddDirtyRect(kmsPending[i], Dirty)]
  /\ path' = "Idle" /\ outcome' = "shown"
  /\ UNCHANGED <<scanVars, kmsFront>>

\* Otherwise the back buffer takes what it has missed since it was last written.
ComposeBuffer ==
  LET pending == [i \in Indexes |-> AddDirtyRect(kmsPending[i], Dirty)]
      back == kms_back_buffer_index
  IN /\ path = "Software" /\ board # "Firmware" /\ Compose
     /\ kmsBuffer' = Copied(back, pending[back])
     /\ kmsPending' = [pending EXCEPT ![back] = {}]

ComposePresent ==
  /\ ComposeBuffer
  /\ Submit({KmsPlane(kms_back_buffer_index)})
  /\ kmsFront' = kms_back_buffer_index
  /\ path' = "Idle" /\ outcome' = "shown"

\* The overlays whose front buffer is no longer the one the list shows.
FrontMoved ==
  {p.from.layer : p \in {q \in submittedPlanes :
     /\ q.from.kind = "layer" /\ q.from.layer \in OverlayLayers
     /\ q.from.index # hwFront[q.from.layer]}}

\* The list stays, but the overlays built for the new one do not get their front
\* buffers back.
ComposePresentFails ==
  /\ ComposeBuffer
  /\ NotPresented
  /\ stranded' = FrontMoved
  /\ UNCHANGED <<submittedPlanes, scannedMemory, kmsFront>>

PresentLayerList ==
  \/ PresentFenced \/ PresentHeld \/ TryV3dPostprocess \/ TryKmsDirectScanout
  \/ ComposeScreen \/ ComposePresent \/ ComposePresentFails

\* The display hardware takes the submitted list.
NativeVBlank ==
  /\ scannedMemory # MemoryOf(submittedPlanes)
  /\ scannedMemory' = MemoryOf(submittedPlanes)
  /\ UNCHANGED <<shownVars, copyVars, softVars, submittedPlanes, stranded, kmsFront,
                 path, outcome>>

NativeNext == NativeCall \/ PresentLayerList \/ NativeVBlank

NativeSpec == NativeInit /\ [][NativeNext]_nativeVars

---------------------------------------------------------------------------
(* Correctness.                                                             *)

\* A composed buffer fills the screen and is right in every column; otherwise
\* every layer has a plane, in its place and up to date.
ListCurrent(ps) ==
  \/ /\ snapshot.valid
     /\ \E i \in Indexes :
          ps = {KmsPlane(i)} /\ \A c \in Screen : kmsBuffer[i][c] \in {Drawn(c), Foreign}
  \/ /\ ~snapshot.valid
     /\ {p.from.layer : p \in ps} = showing_
     /\ \A p \in ps : p.from.kind # "kms" => p.at = dst[p.from.layer]
     /\ \A p \in ps : p.from.kind = "layer" => hwscale[p.from.layer][p.from.index] = "fresh"

(***************************************************************************)
(* After a present that some path has carried out, the screen shows every  *)
(* layer that is shown, in its place and with the pixels it had at its     *)
(* last MarkDirty or later, and nothing else, whatever paths were taken    *)
(* and have failed before.  Excepted is the copy of a V3D frame that was   *)
(* left in a buffer of the software path when its present failed.          *)
(***************************************************************************)
PictureCurrent ==
  path = "Idle" /\ outcome = "shown" => ListCurrent(submittedPlanes)

\* What the path that is next to be tried may write.
Targets ==
  CASE path = "V3d" /\ BaseLayer \in showing_ ->
         {Memory("layer", l, SelectedBuffer(l)) : l \in {k \in ShownOverlays : NeedsCopy(k)}}
           \cup {Memory("kms", BaseLayer, kms_back_buffer_index)}
    [] path = "Direct" ->
         {Memory("layer", l, SelectedBuffer(l)) : l \in {k \in showing_ : NeedsCopy(k)}}
    [] path = "Software" -> {Memory("kms", BaseLayer, kms_back_buffer_index)}
    [] OTHER -> {}

\* An overlay's buffer that is shown although it is no longer the front one: a
\* present has built the other buffer and then failed on every path, and none has
\* succeeded since.
LeftBehind(m) == m.kind = "layer" /\ m.layer \in stranded

(***************************************************************************)
(* No path writes a buffer of the list that was submitted last, and on the *)
(* Pi 4, with its fence, of the list that is scanned, although overlays,   *)
(* base layer and composed buffers change their roles each by itself and   *)
(* an overlay's buffers change theirs before the present has succeeded.    *)
(* Excepted are the overlays that the last present to fail on every path   *)
(* had built: BuildKmsLayerPlane has moved their front index by then, and  *)
(* the next present writes the buffer that is still shown.                 *)
(***************************************************************************)
ShownBuffersKept ==
  /\ board # "Firmware" => \A m \in MemoryOf(submittedPlanes) \cap Targets : LeftBehind(m)
  /\ board = "Pi4" => \A m \in scannedMemory \cap Targets : LeftBehind(m)
=============================================================================
