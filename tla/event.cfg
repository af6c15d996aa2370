SPECIFICATION Spec
CONSTANTS
  t1 = t1
  t2 = t2
  l1 = l1
  l2 = l2
  w1 = w1
  Listener = {l1, l2}
  Handler = {h1, h2}
  Emission = {e1}
  Waiter = {w1}
  Tag = {t1, t2}
  TagsOf <- Tags
  SyncListener = {l1}
  SyncOccurrence = {h2}
  None = None
CHECK_DEADLOCK FALSE
INVARIANTS EveryListenerOnce LeaveFollowsEnter  WaitersAreLive
 
