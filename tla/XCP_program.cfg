\* A master in the order of the host tool, packets of three units, blocks of four.
CONSTANTS
  WordUnits = 1
  BlockWords = 4
  SectorBlocks = 2
  AppSectors = 2
  Units <- MCUnits
  Chunks <- MCThree
  Targets = {8}
  Lengths = {12}
  Erased = Erased
  Junk = Junk
  Noise = noise
  noise = noise
  None = None
  old = old
  u = u
  v = v
  MaxPrograms = 3
  MaxFaults = 0
SPECIFICATION MCSpec
INVARIANTS UndisturbedProgramSucceeds
