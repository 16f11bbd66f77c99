SPECIFICATION DevicesSpec
CONSTANTS
  Plans = {"none", "same", "changed"}
  Keyboards = {k1, k2}
  Keys = {"a", "shift"}
  Buttons = {"l", "r"}
  BaseLayer = "VIC"
  OverlayLayers = {"UI"}
  Columns = 2
  Rects <- MCRects
  Boards = {"Pi4", "Pi5", "Firmware"}
INVARIANTS
  ListsSound
  TakeoverSound
  FencedBuffersFree
  CrtFramePreserved
  InputFaithful
  PictureCurrent
  ShownBuffersKept
PROPERTIES
  OwnerSpec
  InputFresh
