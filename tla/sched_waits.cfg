CONSTANTS
  Job = {j1, j2}
  Tag = {t1}
  NoJob = NoJob
  RTTag = {t1}
  MaxDepth = 2
  Ops = {"yield", "wait", "join", "sleep", "freeze", "tag", "world", "server_unfreeze", "add", "spawn", "finish", "sef", "nonint", "stop", "server_stop", "server_killall"}
SPECIFICATION HSpec
SYMMETRY Symmetry
INVARIANTS WaitersAreRechecked QueueInv
