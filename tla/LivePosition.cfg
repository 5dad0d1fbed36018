CONSTANTS
  None = None
  A = A
  a1 = a1
  a2 = a2
  B = B
  Z = Z
  Sections <- MCSections
  Fixed = {Z}
  SkipKinds = {Z}
  Outlines <- MCOutlines
  FirstOutline <- OneSub
  UndoTicks = 1
  SuppressTicks = 1
  NotNowTicks = 1

SPECIFICATION Spec

INVARIANTS
  OnePlace
  OffersFit

PROPERTIES
  TickDefers
  PointClosedWhole

CHECK_DEADLOCK FALSE
