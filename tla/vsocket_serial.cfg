CONSTANTS
  NumSocks = 2
  MaxPend = 1
  MaxRx = 0
  Threads = {t1, t2}
  Ops = {"Create", "Bind", "Listen", "Accept", "SetMode", "SetTimeo", "Close"}
  Disciplined = TRUE
  Apart = {{"Close", "Accept"}, {"Close", "Recv"}, {"Close", "SetMode"}, {"Close", "SetTimeo"}, {"SetMode"}, {"SetTimeo"}, {"SetMode", "SetTimeo"}}
  RcvTimeouts = {20}
  DefaultTimeo = 10
  TimeoMod = 32
SPECIFICATION Spec
CHECK_DEADLOCK FALSE
SYMMETRY ThreadSymmetry
INVARIANTS NothingLost OptionsKept
