SPECIFICATION Spec
CONSTANT Plans = {"same"}
INVARIANT EachFramePreserved
