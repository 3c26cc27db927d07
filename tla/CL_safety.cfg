\* Every command at any time, every kind of answer, one fault.
CONSTANTS
  SectorUnits = 2
  SlotUnits = 4
  ExtUnits = 6
  BufUnits = 4
  u1 = u1
  u2 = u2
  u3 = u3
  page = page
  noise = noise
  old = old
  Blank = Blank
  Junk = Junk
  HttpStart = HttpStart
  HeaderEnd = HeaderEnd
  Units <- MCUnits
  File <- MCFile
  Answers <- MCAnswers
  Sizes <- MCSizes
  AtCommands <- MCCommands
  OneTask = FALSE
  MaxStarts = 2
  MaxResets = 1
  MaxFaults = 1
SPECIFICATION MCFairSpec
INVARIANTS ClientTypeOK ReadyIsServed SocketsClosed
PROPERTIES CommitRecordsImage GoldenStands DownloadSettles
