CONSTANTS
  N = 3
  Kinds = {"generate", "classify"}
  Serves <- MCServes
  NameOf <- MCNameOf
  TypeOf <- MCTypeOf
  Asked = {"claude-code", "bionic", "nobody"}
  Requests = {r1, r2}
SPECIFICATION FairSpec
\* Each request is sent once: the run ends when all have returned.
CHECK_DEADLOCK FALSE
INVARIANTS
  JournalTellsAll
PROPERTIES
  SettledIsFinal
  EveryRequestReturns
  KeepsPromise
