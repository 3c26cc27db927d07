\* Every command of the tool, with two faults anywhere.
CONSTANTS
  SectorWords = 2
  AppSectors = 2
  Erased = Erased
  Junk = Junk
  oldBl1 = oldBl1
  oldBl2 = oldBl2
  newBl1 = newBl1
  newBl2 = newBl2
  oldVec = oldVec
  newVec = newVec
  body1 = body1
  body2 = body2
  Words <- MCWords
  ValidVectors <- MCVectors
  BlImages <- MCBlImages
  ReturnCell = 0
  MaxFaults = 2
  MaxAcks = 2
  WordsPerPkt = 2
  AppImage <- MCAppImage
  BlImage <- MCBlImage
  Bases <- MCBases
  Tools <- MCAll
SPECIFICATION MCFairSpec
INVARIANTS SessionTypeOK FlashedMeansProgrammed InstalledIsTheFile UndisturbedFlashSucceeds
PROPERTIES RunsEnd OnlyFileSectorsTouched UpdateRefined
