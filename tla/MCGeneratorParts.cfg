CONSTANTS
  Posts = {p1, p2}
  MaxAccepted = 2
  Pasted = {o1, o2}
  None = None
  Clients = {c1, c2}
  Visitors = {v1, v2}
  Hour = 2
  Day = 3
  PerVisitorPerHour = 2
  PerDay = 3
  BanAfter = 2
  Ban = 3
  MaxKeys = 3
  MaxOffers = 2
  End = 4
  MaxPosts = 4
  TitleJobs = {j1, j2, j3}
  Folders = {d1, d2}
  Names = {n1, n2}
  Nothing = Nothing
  Requests = {q1, q2, q3}
  Codes = {k1, k2, k3}
  Labels = {esn1, esn2}
  Guests = {g1}
  Owners = {w1, w2}
  Nobody = Nobody
  AnswerIds = {1, 2, 3}
  Said = {"go", "sql"}
SPECIFICATION PartsSpec
SYMMETRY Alike
\* Every part comes to an end.
CHECK_DEADLOCK FALSE
INVARIANTS
  OffersAreKept
  Followed
  CapsHold
  HammeringIsBanned
  JobsAreTold
  OwnAnswers
  NobodyWaitsForTheDead
  InvitationsHold
  TakenAnswersLoad
