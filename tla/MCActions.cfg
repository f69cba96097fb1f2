CONSTANTS
  Request = {"r1"}
  Session = {"s1", "s2"}
  Action = {"await-update", "rebase", "rebase-review", "nudge-author", "summarize-diff"}
  Endpoints = {"act", "nudge", "retriage"}
  InitialStates = {"in triage"}
  FailureState = "in triage"
  QueueStates = {"in triage", "in progress", "awaiting update", "done"}
  MaxCalls = 3
  MaxRestarts = 1
SPECIFICATION Spec
INVARIANTS
  TypeOK
  OneLiveSession
  NoOrphan
  RunningHasSession
  UnwatchedHasCause
CHECK_DEADLOCK FALSE
