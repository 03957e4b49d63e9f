SPECIFICATION FairSpec
CONSTANTS
  Main = Main
  Worker = {w1, w2}
  Gen = {g1, g2, g3, g4}
  None = None
  Unbuilt = Unbuilt
  HasLibrary = TRUE
  HasDb = TRUE
INVARIANTS
  IInv
  NoUseAfterFree
  NoLeak
  OneBuilder
  SnapshotFollows
  ReadsOneGeneration
  OutcomeTruthful
  NoThreadOutlives
PROPERTIES
  NoLostUpdate
  CancelledOnRequest
  ImplementsCommit
  ScanEnds
  RequestReturns
  ServerStops
CHECK_DEADLOCK FALSE
