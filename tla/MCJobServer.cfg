CONSTANTS
  Tokens = {v1, v2, v3, v4}
  Posts = {p1}
  Cookies = {TRUE, FALSE}
  MaxVisitors = 3
  MaxJobs = 2
  MaxQueued = 2
  MaxOffers = 2
  MaxAccepted = 3
SPECIFICATION Spec
SYMMETRY Symmetry
INVARIANTS
  VisitorsSeeTheirJobs
