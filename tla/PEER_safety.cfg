\* Every peer, with a fault anywhere.
CONSTANTS
  SectorWords = 2
  AppSectors = 2
  Erased = Erased
  Junk = Junk
  oldBl1 = oldBl1
  oldBl2 = oldBl2
  newBl1 = newBl1
  newBl2 = newBl2
  oldVec = oldVec
  newVec = newVec
  body1 = body1
  body2 = body2
  Words <- MCWords
  ValidVectors <- MCVectors
  BlImages <- MCBlImages
  ReturnCell = 0
  MaxFaults = 1
  MaxAcks = 2
  WordsPerPkt = 2
  AppImage <- MCAppImage
  BlImage <- MCBlImage
  MaxErrors = 1
  Runs <- MCRuns
SPECIFICATION MCFairSpec
INVARIANTS PeerTypeOK UndisturbedV4Succeeds
PROPERTIES PeersRefined PeersKeepToTheFile PeerRunsEnd
