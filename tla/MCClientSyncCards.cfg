CONSTANTS
  Projects = {p, q}
  NoProject = NoProject
  Txns = {x1}
  MaxOpens = 1
SPECIFICATION Spec
CHECK_DEADLOCK FALSE
INVARIANT DialogKeepsData
