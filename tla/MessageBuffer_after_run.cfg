CONSTANTS
  m1 = m1
  m2 = m2
  m3 = m3
  o1 = o1
  o2 = o2
  Msgs = {m1, m2, m3}
  OutMsgs = {o1, o2}
  EarlySignals = FALSE
SPECIFICATION Spec
INVARIANTS
  TypeOK
  NoMessageLost
PROPERTIES
  ReaderWakes
\* The workflow may wait forever for a message that never comes: once all
\* messages have been exchanged the run task stays suspended, a legal end.
CHECK_DEADLOCK FALSE
