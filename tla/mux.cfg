CONSTANTS
  Threads = {t1, t2}
  Apis = {wired, wireless}
  Null = Null
  NumSocks = 2
  Rules = {"anytime", "drained"}
SPECIFICATION Spec
SYMMETRY Symmetry
CHECK_DEADLOCK FALSE
INVARIANTS TypeOK OwnersServe NoSocketStranded
PROPERTY ImplementsSwitch
