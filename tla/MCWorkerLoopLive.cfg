SPECIFICATION FairSpec
CONSTANTS
  Change = {a}
  Overflow = Overflow
  RootCall = {}
  FilterCall = {f}
  HandlerCall = {h}
  ShutdownCall = {}
  Scenes <- InotifyScenes
  Spurious = FALSE
PROPERTIES Reconciled Delivered CallsReturn
\* The worker thread ends at a shutdown, and without one all threads end up waiting.
CHECK_DEADLOCK FALSE
