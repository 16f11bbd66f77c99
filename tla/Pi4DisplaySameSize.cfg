SPECIFICATION Spec
CONSTANT Plans = {"same"}
INVARIANT FirmwareModeRebuilt
