SPECIFICATION FairSpec
CONSTANTS
  Wdts = 3
  MaxResets = 1
  Windows = 2
  Images = {0, 2, 3, 4, 6}
  Confs = 2
  Options = 2
  BitLen = 3
  Tries = 2
  Chips <- MCChips
  MaxCommands = 2
INVARIANTS FlashFrozen KeepsCpu SuccessBoots Relocked WriteTakes
PROPERTIES ResetOnWholeWindows Ends BurnsTarget
CHECK_DEADLOCK FALSE
