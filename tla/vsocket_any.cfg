CONSTANTS
  NumSocks = 1
  MaxPend = 1
  MaxRx = 1
  Threads = {t1, t2}
  Ops = {"Create", "Bind", "Listen", "Accept", "Connect", "Recv", "SetTimeo", "GetTimeo", "Close", "GetHostByName"}
  Disciplined = FALSE
  Apart = {}
  RcvTimeouts = {47}
  DefaultTimeo = 10
  TimeoMod = 32
SPECIFICATION FairSpec
CHECK_DEADLOCK FALSE
INVARIANTS TypeOK NothingLost TimeoutHonoured
PROPERTIES ConnectSettles RecvReturns AcceptReleased
