CONSTANTS
  Session = {"s1", "s2"}
  Item = {"pr1", "pr2"}
  Kind = {"action", "triage"}
  ItemOf <- MCItemOf
  KindOf <- MCKindOf
  InitialCap = 1
  NewCaps = {}
  MaxMessages = 2
  MaxAborts = 1
SPECIFICATION FairSpec
INVARIANTS
  AtMostCap
PROPERTIES
  FirstTurnSignalled
  AbortEndsSession
  FollowUpServed
CHECK_DEADLOCK FALSE
