CONSTANTS
  t1 = t1
  t2 = t2
  t3 = t3
  Bash = Bash
  Read = Read
  Ids = {t1}
  Tools = {Bash}
  Handled = {Bash}
  NReqs = 2
  NCons = 2
  ReqId <- DupReqId
  ReqTool <- DupReqTool
  ConId <- DupConId
SPECIFICATION Spec
INVARIANTS
  NoSignalHandlerCrash
CHECK_DEADLOCK FALSE
