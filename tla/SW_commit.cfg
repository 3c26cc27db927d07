\* The network client commits, nothing fails.
CONSTANTS
  SectorLines = 2
  ASectors = 2
  LineUnits = 2
  Images <- MCImages
  App = "app"
  AppLines = 3
  AllOnes = 3
  Erased = Erased
  Junk = Junk
  MaxFaults = 0
SPECIFICATION MCSpec
PROPERTIES CommitIsPending
