CONSTANTS
  MaxStreams = 2
  MaxVersion = 2
  MaxFaults = 2
  MaxQueue = 2
SPECIFICATION FairSpec
INVARIANTS ScreenTruthful
PROPERTIES RevokedCleared EventuallyCurrent
