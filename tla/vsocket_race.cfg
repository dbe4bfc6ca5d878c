CONSTANTS
  NumSocks = 1
  MaxPend = 1
  MaxRx = 1
  Threads = {t1, t2}
  Ops = {"Create", "Connect", "Recv", "Close"}
  Disciplined = TRUE
  Apart = {{"Close", "Connect"}, {"Close", "Recv"}}
  RcvTimeouts = {}
  DefaultTimeo = 10
  TimeoMod = 32
SPECIFICATION Spec
CHECK_DEADLOCK FALSE
INVARIANT RecvAsksHost
