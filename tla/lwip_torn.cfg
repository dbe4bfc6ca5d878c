CONSTANTS
  Stack = "lwip"
  NumSocks = 1
  MaxPend = 1
  MaxRx = 1
  Threads = {t1, t2}
  Ops = {"Create", "Recv", "SetTimeo"}
  Alone = {"Bind", "Listen", "Connect", "SetMode", "Close"}
  Strays = {}
  Modes = {}
  RcvTimeouts = {2000, 500}
  SecMod = 1048576
SPECIFICATION Spec
CHECK_DEADLOCK FALSE
INVARIANT NoUnaskedWait
