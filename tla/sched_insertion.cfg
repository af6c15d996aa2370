CONSTANTS
  Job = {j1, j2, j3, j4}
  Tag = {t1}
  NoJob = NoJob
  RTTag = {}
  MaxDepth = 1
  Ops = {"spawn", "stop", "add", "yield"}
SPECIFICATION Spec
SYMMETRY Symmetry
INVARIANTS InsertionIsDefined
