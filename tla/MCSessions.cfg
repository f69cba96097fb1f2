CONSTANTS
  Session = {"s1", "s2", "s3"}
  Item = {"pr1", "pr2"}
  Kind = {"action", "triage"}
  ItemOf <- MCItemOf
  KindOf <- MCKindOf
  InitialCap = 1
  NewCaps = {2}
  MaxMessages = 1
  MaxAborts = 1
SPECIFICATION Spec
INVARIANTS
  TypeOK
  SlotConservation
  SlotDiscipline
  WaitOnlyWhenFull
  DoneIsOver
PROPERTIES
  PoolSpec
CHECK_DEADLOCK FALSE
