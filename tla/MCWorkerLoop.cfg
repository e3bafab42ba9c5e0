SPECIFICATION Spec
CONSTANTS
  Change = {a, b}
  Overflow = Overflow
  RootCall = {r1, r2}
  FilterCall = {f}
  HandlerCall = {h}
  ShutdownCall = {s}
  Scenes <- AllScenes
  Spurious = TRUE
INVARIANTS TypeOK NothingForgotten SwapHandsBackNothing NoLostChange RootsAnnounced SettledUnlessStarved
SYMMETRY Symmetry
\* The worker thread ends at a shutdown, and without one all threads end up waiting.
CHECK_DEADLOCK FALSE
