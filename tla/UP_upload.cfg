\* Two files, lost, late and refused commands and answers, broken and cut
\* connections and resets of the board.
CONSTANTS
  SectorUnits = 2
  SlotUnits = 4
  ExtUnits = 4
  BufUnits = 4
  u1 = u1
  u2 = u2
  u3 = u3
  page = page
  old = old
  Blank = Blank
  Junk = Junk
  HttpStart = HttpStart
  HeaderEnd = HeaderEnd
  Units <- MCUnits
  File <- MCFile
  Files <- MCFiles
  Answers <- MCAnswers
  Sizes <- MCSizes
  AtCommands <- MCCommands
  OneTask = TRUE
  MaxStarts = 2
  MaxResets = 1
  MaxFaults = 2
SPECIFICATION MCFairSpec
INVARIANT UploadedIsCommitted
PROPERTY UploadEnds
CHECK_DEADLOCK FALSE
