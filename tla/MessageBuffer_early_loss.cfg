CONSTANTS
  m1 = m1
  m2 = m2
  m3 = m3
  o1 = o1
  o2 = o2
  Msgs = {m1, m2, m3}
  OutMsgs = {o1, o2}
  EarlySignals = TRUE
SPECIFICATION Spec
INVARIANTS
  NoMessageLost
CHECK_DEADLOCK FALSE
