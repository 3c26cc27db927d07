\* The right file, no fault, in pieces of any size.
CONSTANTS
  SectorUnits = 2
  SlotUnits = 4
  ExtUnits = 4
  BufUnits = 4
  u1 = u1
  u2 = u2
  u3 = u3
  page = page
  noise = noise
  old = old
  Blank = Blank
  Junk = Junk
  HttpStart = HttpStart
  HeaderEnd = HeaderEnd
  Units <- MCUnits
  File <- MCFile
  Answers <- MCRight
  Sizes <- MCSizes
  AtCommands <- MCStart
  OneTask = TRUE
  MaxStarts = 1
  MaxResets = 0
  MaxFaults = 0
SPECIFICATION MCSpec
INVARIANTS UndisturbedSucceeds
