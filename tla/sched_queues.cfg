CONSTANTS
  Job = {j1, j2}
  Tag = {t1}
  NoJob = NoJob
  RTTag = {t1}
  MaxDepth = 1
  Ops = {"yield", "wait", "join", "sleep", "freeze", "tag", "world", "add", "spawn", "child", "finish", "fail", "sef", "nonint", "stop", "terminate", "killall", "server_stop", "server_killall", "server_unfreeze"}
SPECIFICATION Spec
SYMMETRY Symmetry
INVARIANTS TypeOK NeverQueuedTwice NoJobLost RoundKnowsAllJobs OnlyLiveJobsQueued JoinIsExact WorkIsImmediate
