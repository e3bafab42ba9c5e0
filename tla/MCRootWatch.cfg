\* Other threads and programs stop after their calls.
CHECK_DEADLOCK FALSE
SPECIFICATION FairSpec
CONSTANTS
  Dir <- MCDir
  Scenes <- MCScenes
INVARIANTS TypeOK Covered TreeOrder NoDoubleCrawl NothingLost OneRead CancelledBeforeFreed NoStreamLeft
PROPERTIES Reported  Recrawled
