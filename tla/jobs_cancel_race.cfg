\* One job and one cancel.
CONSTANTS
  Jobs = {j1}
  Cancellers = {c1}
  NoJob = NoJob
  MaxRestarts = 0
SPECIFICATION Spec
PROPERTY TerminalIsFinal
CHECK_DEADLOCK FALSE
