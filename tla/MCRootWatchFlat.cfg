\* Other threads and programs stop after their calls.
CHECK_DEADLOCK FALSE
SPECIFICATION FairSpec
CONSTANTS
  Dir <- MCDir
  Scenes <- FlatScenes
INVARIANTS TrueMeansWatched
