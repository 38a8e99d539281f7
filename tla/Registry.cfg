CONSTANTS
  Bash = Bash
  Read = Read
  Plain = Plain
  Tooled = Tooled
  i1 = i1
  i2 = i2
  i3 = i3
  none = none
  Tools = {Bash, Read}
  Classes = {Plain, Tooled}
  Insts = {i1, i2, i3}
  NoInst = none
  NAttrs = 4
  NAddrs = 2
  Kind <- MCKind
  Tag <- MCTag
  InstClass <- MCInstClass
SPECIFICATION Spec
INVARIANT RegistryMatchesClass
CHECK_DEADLOCK FALSE
