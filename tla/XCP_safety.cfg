\* A master that does anything in any order, one fault.
CONSTANTS
  WordUnits = 1
  BlockWords = 2
  SectorBlocks = 2
  AppSectors = 1
  Units <- MCUnits
  Chunks <- MCChunks
  Targets = {3, 5, 6}
  Lengths = {0, 2}
  Erased = Erased
  Junk = Junk
  Noise = noise
  noise = noise
  None = None
  old = old
  u = u
  v = v
  MaxPrograms = 3
  MaxFaults = 1
SPECIFICATION MCFairSpec
INVARIANTS XcpTypeOK
PROPERTIES DoneMeansWritten BootloaderStands LeftAloneStarts
