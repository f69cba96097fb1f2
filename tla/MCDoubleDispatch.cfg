CONSTANTS
  Request = {"r1", "r2"}
  Session = {"s1", "s2"}
  Action = {"rebase"}
  Endpoints = {"act"}
  InitialStates = {"in triage"}
  FailureState = "in triage"
  QueueStates = {"in triage", "in progress", "awaiting update", "done"}
  MaxCalls = 2
  MaxRestarts = 0
SPECIFICATION Spec
INVARIANTS
  OneLiveSession
CHECK_DEADLOCK FALSE
