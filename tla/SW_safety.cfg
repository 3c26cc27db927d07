\* Images of every kind, three faults.
CONSTANTS
  SectorLines = 2
  ASectors = 2
  LineUnits = 2
  Images <- MCImages
  App = "app"
  AppLines = 3
  AllOnes = 3
  Erased = Erased
  Junk = Junk
  MaxFaults = 3
SPECIFICATION MCFairSpec
INVARIANTS SwapTypeOK StartedIsWhole VerifyingMeansCopied
PROPERTIES OutsideKept RecoveredIsGolden BootEnds
