CONSTANTS
  Stack = "mdk"
  NumSocks = 2
  MaxPend = 1
  MaxRx = 0
  Threads = {t1, t2}
  Ops = {"Create", "Bind", "Listen", "Accept", "Connect", "Recv", "SetMode", "SetTimeo", "Close"}
  Alone = {"Bind", "Listen", "Connect", "SetMode", "SetTimeo", "Close"}
  Strays = {3}
  Modes = {0, 1}
  RcvTimeouts = {1500}
  SecMod = 2097152
SPECIFICATION Spec
SYMMETRY ThreadSymmetry
CHECK_DEADLOCK FALSE
INVARIANTS TypeOK OptionsMirrored CheckWaitsLikeRecv
