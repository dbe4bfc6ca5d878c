CONSTANTS
  Buffers = {b1, b2}
  NoBuf = NoBuf
  QLen = 2
  MacSlots = 2
  MaxFrames = 3
  SlowLink = FALSE
  ReadErrors = FALSE
SPECIFICATION Spec
CHECK_DEADLOCK FALSE
INVARIANT NoLostWakeup
