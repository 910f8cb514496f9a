CONSTANTS
  o1 = o1
  r1 = r1
  r2 = r2
  default = default
  other = other
  Runs = {r1, r2}
  Offers = {o1}
  Slug <- SlugOf
  Asks <- AsksOf
  Profiles = {default, other}
  Default = default
  None = None
  Torn = Torn
  Seconds = 2
SPECIFICATION FairSpec
CHECK_DEADLOCK FALSE
INVARIANTS
  ReusedIsWhole
  PdfIsOfItsDocx
PROPERTIES
  EveryTailoringEnds
