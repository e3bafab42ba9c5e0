SPECIFICATION FairSpec
CONSTANTS
  Change = {a}
  Overflow = Overflow
  RootCall = {}
  FilterCall = {}
  HandlerCall = {}
  ShutdownCall = {s}
  Scenes <- InotifyScenes
  Spurious = FALSE
PROPERTIES ShutdownStopsWorker
\* The worker thread ends at a shutdown, and without one all threads end up waiting.
CHECK_DEADLOCK FALSE
