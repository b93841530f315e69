CONSTANTS
  MaxStreams = 2
  MaxVersion = 1
  MaxFaults = 1
  MaxQueue = 2
SPECIFICATION FairSpec

PROPERTIES SlotsReleased
