CONSTANTS
  Tasks = {a, b}
  Main = main
  Chans = {c}
  Msgs = {m, n}
  TVars = {v}
  None = None
  FirstCap = 1
  MaxLen = 4
  MaxOps = 2
  MaxVersion = 1
SPECIFICATION Spec
INVARIANTS TypeOK EndsAfterTasks
PROPERTIES EnginesAgree NeverConflicts
CHECK_DEADLOCK FALSE
SYMMETRY Symmetry
