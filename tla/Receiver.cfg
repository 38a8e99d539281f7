CONSTANTS
  t1 = t1
  t2 = t2
  Bash = Bash
  Read = Read
  m1 = m1
  m2 = m2
  o1 = o1
  Ids = {t1, t2}
  Tools = {Bash, Read}
  Handled = {Bash}
  NReqs = 2
  NCons = 3
  ReqId <- RecvReqId
  ReqTool <- RecvReqTool
  ConId <- RecvConId
  Msgs = {m1, m2}
  OutMsgs = {o1}
  EarlySignals = TRUE
SPECIFICATION Spec
INVARIANTS
  TypeOK
  AtMostOnce
\* Once every signal and update has been handled the workflow waits for
\* the next one: that end state is legal.
CHECK_DEADLOCK FALSE
