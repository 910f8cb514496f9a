\* One visitor, and queues long enough to have an order.
CONSTANTS
  Tokens = {v1}
  Posts = {p1}
  Cookies = {TRUE}
  MaxVisitors = 5
  MaxJobs = 2
  MaxQueued = 4
  MaxOffers = 2
  MaxAccepted = 5
SPECIFICATION FairSpec
INVARIANTS
  LanesAreSound
PROPERTIES
  JobsMoveForward
  EveryJobEnds
