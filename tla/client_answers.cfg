SPECIFICATION Spec
CONSTANTS
  User = {u1, u2}
  Event = {}
  Request = {r1, r2, r3}
  None = None
CHECK_DEADLOCK FALSE
INVARIANT AnswerIsMine
