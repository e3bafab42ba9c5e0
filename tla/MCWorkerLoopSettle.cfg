SPECIFICATION Spec
CONSTANTS
  Change = {a, b}
  Overflow = Overflow
  RootCall = {}
  FilterCall = {f}
  HandlerCall = {}
  ShutdownCall = {}
  Scenes <- InotifyScenes
  Spurious = FALSE
INVARIANTS SettledQuiet
\* The worker thread ends at a shutdown, and without one all threads end up waiting.
CHECK_DEADLOCK FALSE
