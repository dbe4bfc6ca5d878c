CONSTANTS
  Stack = "lwip"
  NumSocks = 1
  MaxPend = 1
  MaxRx = 1
  Threads = {t1, t2}
  Ops = {"Create", "Bind", "Listen", "Accept", "Connect", "Recv", "Send", "GetSockName", "SetMode", "SetTimeo", "Close"}
  Alone = {"Bind", "Listen", "Connect", "SetMode", "SetTimeo", "Close"}
  Strays = {2}
  Modes = {0, 1}
  RcvTimeouts = {2000, 500}
  SecMod = 1048576
SPECIFICATION FairSpec
CHECK_DEADLOCK FALSE
INVARIANTS TypeOK OptionsMirrored NoUnaskedWait BoundIsNamed RebindRefused
PROPERTY TimedRecvReturns
