CONSTANTS
  t1 = t1
  t2 = t2
  t3 = t3
  Bash = Bash
  Read = Read
  Ids = {t1, t2, t3}
  Tools = {Bash, Read}
  Handled = {Bash}
  NReqs = 3
  NCons = 3
  ReqId <- UniqueReqId
  ReqTool <- UniqueReqTool
  ConId <- UniqueConId
SPECIFICATION Spec
INVARIANTS
  TypeOK
  NoSignalHandlerCrash
  ExactlyOnce
  ResultNotLost
PROPERTIES
  WaiterReleased
\* Once every signal and update has been delivered and handled the
\* workflow is idle, waiting for the next one: that end state is legal.
CHECK_DEADLOCK FALSE
