CONSTANTS
  Session = {"s1", "s2", "s3"}
  Item = {"pr1", "pr2"}
  Kind = {"action", "triage"}
  ItemOf <- MCItemOf
  KindOf <- MCKindOf
  InitialCap = 1
  NewCaps = {2}
  MaxMessages = 0
  MaxAborts = 0
SPECIFICATION Spec
PROPERTIES
  NewAcquiresSeeCap
CHECK_DEADLOCK FALSE
