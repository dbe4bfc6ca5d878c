CONSTANTS
  Stack = "lwip"
  NumSocks = 2
  MaxPend = 1
  MaxRx = 0
  Threads = {t1, t2}
  Ops = {"Create", "Listen", "Accept", "SetMode", "SetTimeo", "Close"}
  Alone = {"Bind", "Listen", "Connect", "SetMode", "SetTimeo", "Close"}
  Strays = {}
  Modes = {0, 1}
  RcvTimeouts = {1500}
  SecMod = 1048576
SPECIFICATION Spec
SYMMETRY ThreadSymmetry
CHECK_DEADLOCK FALSE
INVARIANTS OptionsMirrored
