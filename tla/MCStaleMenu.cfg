CONSTANTS
  Discussion <- MCDiscussion
  Age = {0, 40}
  Opened <- MCOpened
  Toggles <- MCToggles
  MaxActions = 1
SPECIFICATION Spec
INVARIANT MergeReflectsPull
