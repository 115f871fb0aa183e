SPECIFICATION Spec
CONSTANTS
  Chunk = 2
  Space = 16
  Inputs = {0, 3, 6}
  Drams <- MCDrams
  Ranges <- MCRanges
  Flash <- MCFlash
  Win = 3
  MaxPokes = 2
  Rams <- MCRams
  Strings <- MCStrings
  Sram = 4
  Ring = 4
  MaxEvents = 5
  MaxRuns = 1
  Clients = {"c1", "c2", "c3"}
  Fds = 4
INVARIANT DumpsBuffer
CHECK_DEADLOCK FALSE
