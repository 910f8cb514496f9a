CONSTANTS
  Threads = {t1, t2, t3}
  Max = 2
  Shapes <- MCShapes
  MaxArrivals = 3
SPECIFICATION RunningSpec
\* The run ends when MaxArrivals requests have come and gone.
CHECK_DEADLOCK FALSE
PROPERTIES
  SlotsAreASemaphore
  NobodyIsHeldUp
  EveryThreadEnds
