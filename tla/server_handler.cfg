SPECIFICATION Spec
CONSTANTS
  Thread = {t1, t2}
  NoThread = NoThread
  Async = {a1}
  Fast = {f1, f2}
  Failing = {f2}
INVARIANT HandlerIsAlways
