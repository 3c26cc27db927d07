\* Flash commands on the application area, on BL_TEMP and on sector 0, the
\* self-upgrade, and every other kind of frame, with a fault.
CONSTANTS
  SectorWords = 2
  AppSectors = 1
  Erased = Erased
  Junk = Junk
  oldBl1 = oldBl1
  oldBl2 = oldBl2
  newBl1 = newBl1
  newBl2 = newBl2
  oldVec = oldVec
  newVec = newVec
  body = body
  Words <- MCWords
  ValidVectors <- MCVectors
  BlImages <- MCBlImages
  EnvFrames <- MCFrames
  ReturnCell = 0
  MaxFaults = 1
  MaxAcks = 1
SPECIFICATION MCFairSpec
INVARIANTS TypeOK StartedPassedTest UpgradedMeansCopied
PROPERTIES AckedWriteIsInFlash OnlyNamedCellsChange BootDecides CommandsEnd StrayHeals
