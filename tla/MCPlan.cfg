CONSTANTS
  Request = {"r1"}
  Session = {"s1", "s2"}
  Action = {"plan-fix", "address-comments"}
  Endpoints = {"act", "approve", "post", "discard", "continue", "delete", "retriage"}
  InitialStates = {"in triage"}
  FailureState = "in triage"
  QueueStates = {"in triage", "in progress", "awaiting update", "done"}
  MaxCalls = 3
  MaxRestarts = 1
SPECIFICATION FairSpec
INVARIANTS
  OneDispatched
PROPERTIES
  OfferUnsticks
CHECK_DEADLOCK FALSE
