SPECIFICATION FairSpec
CONSTANTS
  Job = {j1, j2, j3}
  NoJob = NoJob
  Initial = 1
  MaxTotal = 2
CHECK_DEADLOCK FALSE
INVARIANTS TokensConserved QueueIsExact SignalsReachWaiters WaitersCanBeWoken
PROPERTIES ImplementsTokenPool AcquireIsServed
