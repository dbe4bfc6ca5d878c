CONSTANTS
  Buffers = {b1, b2}
  NoBuf = NoBuf
  QLen = 2
  MacSlots = 2
  MaxFrames = 3
  SlowLink = TRUE
  ReadErrors = FALSE
SPECIFICATION FairSpec
CHECK_DEADLOCK FALSE
INVARIANTS TypeOK BuffersConserved NoLostWakeup FramesInOrder
PROPERTIES MacDrained ImplementsChannel
