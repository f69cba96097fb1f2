CONSTANTS
  Thread = {t1, t2}
  Session = {s1, s2}
  Card = {c1}
  Column = {todo, done, fresh}
  Columns = {todo, done}
  None = None
  MaxInputs = 2
SPECIFICATION FairSpec
PROPERTY CardsMoveOnPurpose
CHECK_DEADLOCK FALSE
