CONSTANTS
  Fn = {f, g}
  Sig = {"narrow", "wide"}
  StubSize <- Sizes
  CData = {c1, c2}
  MaxSlots = 2
  SlabSize = 4
  MaxDepth = 2
SPECIFICATION Spec
INVARIANTS TypeOK AnchoredExactly
PROPERTY ImplementsAbs
CHECK_DEADLOCK FALSE
