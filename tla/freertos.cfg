SPECIFICATION FairSpec
CONSTANTS
  Threads = {t1, t2}
  Waiters = {t1}
  Heap = {4, 5}
  AddrSpan = 16
  MaxPend = 1
  MaxRx = 1
  Modes = {1}
  Timeouts = {0}
  StartupTimeout = 600
  StartupStep = 200
INVARIANTS TypeOK SocketsAccounted NonBlockingNeverWaits StackIsThere StartupWaits
PROPERTIES UnlimitedCallsWait StartupReturns
CHECK_DEADLOCK FALSE
