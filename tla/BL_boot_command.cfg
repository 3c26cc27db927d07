\* The boot command after the application has been replaced.
CONSTANTS
  SectorWords = 2
  AppSectors = 1
  Erased = Erased
  Junk = Junk
  oldBl1 = oldBl1
  oldBl2 = oldBl2
  newBl1 = newBl1
  newBl2 = newBl2
  oldVec = oldVec
  newVec = newVec
  body = body
  Words <- MCWords
  ValidVectors <- MCVectors
  BlImages <- MCBlImages
  EnvFrames <- MCAppOnly
  ReturnCell = 0
  MaxFaults = 1
  MaxAcks = 2
SPECIFICATION MCSpec
PROPERTIES BootStartsFlashedApp
