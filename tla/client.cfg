SPECIFICATION FairSpec
CONSTANTS
  User = {u1, u2}
  Event = {e1, e2}
  Request = {r1, r2}
  None = None
CHECK_DEADLOCK FALSE
INVARIANTS TokensMatchQueue 
PROPERTIES AnswerIsMineAlone  
